---- MODULE Spec2Model ----
(***************************************************************************)
(* A model of s3-tree-clone (src/main.go): the object-key construction,   *)
(* the metadata codec and comparator, and the concurrent tree walk with   *)
(* its wait group and weighted semaphore.                                  *)
(*                                                                         *)
(* Go strings are sequences of one-character strings, so that the string  *)
(* functions of the code (path.Join, strings.TrimRight, strconv.ParseUint, *)
(* fmt.Sprintf, time.ParseDuration, hex.EncodeToString) are computed, not  *)
(* assumed.                                                                *)
(***************************************************************************)
EXTENDS Integers, Sequences, FiniteSets, TLC

\* ------------------------------------------------------------------ bounds

\* Longest text after "s3://" in the destination argument.
MaxDestLen == 5
\* Deepest directory nesting followed by the key walk.
MaxDepth == 2

\* ------------------------------------------------------- strings (Go library)

Sep == "/"
Dot == <<".">>
DotDot == <<".", ".">>

RECURSIVE StringsUpTo(_, _)
StringsUpTo(alphabet, n) ==
    IF n = 0 THEN {<<>>}
    ELSE LET shorter == StringsUpTo(alphabet, n - 1)
         IN  shorter \cup {Append(s, c) : s \in shorter, c \in alphabet}

HasPrefix(s, p) == Len(s) >= Len(p) /\ SubSeq(s, 1, Len(p)) = p

HasSuffix(s, p) == Len(s) >= Len(p) /\ SubSeq(s, Len(s) - Len(p) + 1, Len(s)) = p

TrimPrefix(s, p) == IF HasPrefix(s, p) THEN SubSeq(s, Len(p) + 1, Len(s)) ELSE s

\* strings.TrimRight(s, "/"): every trailing separator is removed.
RECURSIVE TrimRightSep(_)
TrimRightSep(s) ==
    IF s # <<>> /\ s[Len(s)] = Sep THEN TrimRightSep(SubSeq(s, 1, Len(s) - 1)) ELSE s

\* Index of the first separator of s, 0 when there is none.
RECURSIVE IndexSepFrom(_, _)
IndexSepFrom(s, i) ==
    IF i > Len(s) THEN 0 ELSE IF s[i] = Sep THEN i ELSE IndexSepFrom(s, i + 1)

\* strings.SplitN(s, "/", 2): one part when s has no separator, else the text
\* before and the text after the first separator.
SplitN2(s) ==
    LET i == IndexSepFrom(s, 1)
    IN  IF i = 0 THEN <<s>> ELSE <<SubSeq(s, 1, i - 1), SubSeq(s, i + 1, Len(s))>>

\* strings.Contains(s, "//")
ContainsDoubleSep(s) == \E i \in 1..(Len(s) - 1) : s[i] = Sep /\ s[i + 1] = Sep

\* The separator-delimited elements of s, empty elements included.
RECURSIVE SegsFrom(_, _, _)
SegsFrom(s, cur, acc) ==
    IF s = <<>> THEN Append(acc, cur)
    ELSE IF Head(s) = Sep THEN SegsFrom(Tail(s), <<>>, Append(acc, cur))
    ELSE SegsFrom(Tail(s), Append(cur, Head(s)), acc)

Segments(s) == SegsFrom(s, <<>>, <<>>)

RECURSIVE JoinSegs(_)
JoinSegs(segs) ==
    IF segs = <<>> THEN <<>>
    ELSE IF Len(segs) = 1 THEN segs[1]
    ELSE segs[1] \o <<Sep>> \o JoinSegs(Tail(segs))

\* path.Clean's element rules: empty and "." elements are dropped, ".." removes
\* the element before it, is dropped at the root, and is kept at the start of a
\* relative path.
RECURSIVE CleanSegs(_, _, _)
CleanSegs(segs, rooted, out) ==
    IF segs = <<>> THEN out
    ELSE LET g == Head(segs)
             rest == Tail(segs)
         IN  IF g = <<>> \/ g = Dot THEN CleanSegs(rest, rooted, out)
             ELSE IF g = DotDot
                  THEN IF out # <<>> /\ out[Len(out)] # DotDot
                       THEN CleanSegs(rest, rooted, SubSeq(out, 1, Len(out) - 1))
                       ELSE IF rooted THEN CleanSegs(rest, rooted, out)
                       ELSE CleanSegs(rest, rooted, Append(out, g))
             ELSE CleanSegs(rest, rooted, Append(out, g))

\* path.Clean
Clean(s) ==
    IF s = <<>> THEN Dot
    ELSE LET rooted == s[1] = Sep
             body == JoinSegs(CleanSegs(Segments(s), rooted, <<>>))
         IN  IF rooted THEN <<Sep>> \o body
             ELSE IF body = <<>> THEN Dot ELSE body

\* path.Join's buffer: an element is appended, after a separator, once the
\* buffer is non-empty or the element is non-empty.
RECURSIVE JoinBuf(_, _)
JoinBuf(elems, buf) ==
    IF elems = <<>> THEN buf
    ELSE LET e == Head(elems)
         IN  IF buf # <<>> THEN JoinBuf(Tail(elems), buf \o <<Sep>> \o e)
             ELSE IF e # <<>> THEN JoinBuf(Tail(elems), e)
             ELSE JoinBuf(Tail(elems), buf)

\* path.Join
Join(elems) ==
    IF \A i \in 1..Len(elems) : elems[i] = <<>> THEN <<>>
    ELSE Clean(JoinBuf(elems, <<>>))

\* ------------------------------------------------- destination and object keys

S3Scheme == <<"s", "3", ":", "/", "/">>

\* SetBucketAndPrefix: the error, or the bucket and the normalised prefix.
SetBucketAndPrefix(d) ==
    IF ~HasPrefix(d, S3Scheme) THEN [err |-> TRUE, bucket |-> <<>>, prefix |-> <<>>]
    ELSE LET parts == SplitN2(TrimPrefix(d, S3Scheme))
         IN  IF Len(parts) # 2
             THEN [err |-> FALSE, bucket |-> parts[1], prefix |-> <<>>]
             ELSE LET trimmed == TrimRightSep(parts[2])
                  IN  [err |-> FALSE, bucket |-> parts[1],
                       prefix |-> IF Len(trimmed) > 0 THEN trimmed \o <<Sep>> ELSE trimmed]

\* A variant of the key that concatenates its parts without cleaning them.
HandleFileKeyConcat(pfx, relPath, filename, isDir) ==
    pfx \o relPath \o <<Sep>> \o filename \o (IF isDir THEN <<Sep>> ELSE <<>>)

\* A variant of the key that leaves directories without the trailing separator.
HandleFileKeyNoSlash(pfx, relPath, filename, isDir) ==
    Join(<<pfx, relPath, filename>>)

\* HandleFile's key: the cleaned join of prefix, relative path and leaf name,
\* with a separator appended for a directory.
HandleFileKey(pfx, relPath, filename, isDir) ==
    Join(<<pfx, relPath, filename>>) \o (IF isDir THEN <<Sep>> ELSE <<>>)

\* HandleFile's relative path for the nested WalkDirectory call.
HandleFileSubdir(relPath, filename) == Join(<<relPath, filename>>)

\* ------------------------------------------------- numbers and text (Go library)

DigitChars == <<"0", "1", "2", "3", "4", "5", "6", "7", "8", "9">>
HexChars == <<"0", "1", "2", "3", "4", "5", "6", "7", "8", "9", "a", "b", "c", "d", "e", "f">>

\* The value of a digit character, or -1 for any other character.
DigitVal(c) ==
    IF \E i \in 1..10 : DigitChars[i] = c
    THEN (CHOOSE i \in 1..10 : DigitChars[i] = c) - 1
    ELSE -1

\* fmt.Sprintf("%d", n) for n >= 0, in the given base.
RECURSIVE FormatBase(_, _)
FormatBase(n, base) ==
    IF n < base THEN <<DigitChars[n + 1]>>
    ELSE Append(FormatBase(n \div base, base), DigitChars[(n % base) + 1])

\* fmt.Sprintf("%d", n)
FormatDec(n) == IF n < 0 THEN <<"-">> \o FormatBase(-n, 10) ELSE FormatBase(n, 10)

RECURSIVE PadLeft(_, _)
PadLeft(s, width) == IF Len(s) >= width THEN s ELSE PadLeft(<<"0">> \o s, width)

\* fmt.Sprintf("%04o", n)
FormatOct4(n) == PadLeft(FormatBase(n, 8), 4)

\* The digits of s read in the given base; -1 when a character is no digit of
\* that base.
RECURSIVE DigitsValue(_, _, _)
DigitsValue(s, base, acc) ==
    IF s = <<>> THEN acc
    ELSE LET v == DigitVal(Head(s))
         IN  IF v < 0 \/ v >= base THEN -1
             ELSE DigitsValue(Tail(s), base, acc * base + v)

\* Largest value strconv.ParseUint returns for a 16-bit size.
MaxUint16 == 65535

\* strconv.ParseUint(s, base, bitSize) for base 8 or 10: a syntax error for
\* the empty string, a sign or any character that is no digit of the base; a
\* range error above the bit size. (A 32-bit value never goes out of range
\* here: the text of the model has at most 9 digits.)
ParseUint(s, base, bitSize) ==
    IF s = <<>> THEN [err |-> TRUE, val |-> 0]
    ELSE LET v == DigitsValue(s, base, 0)
         IN  IF v < 0 THEN [err |-> TRUE, val |-> 0]
             ELSE IF bitSize = 16 /\ v > MaxUint16 THEN [err |-> TRUE, val |-> MaxUint16]
             ELSE [err |-> FALSE, val |-> v]

IsDigit(c) == DigitVal(c) >= 0

\* The length of the longest prefix of s whose characters all satisfy the test.
RECURSIVE DigitRun(_)
DigitRun(s) == IF s # <<>> /\ IsDigit(Head(s)) THEN 1 + DigitRun(Tail(s)) ELSE 0

RECURSIVE UnitRun(_)
UnitRun(s) ==
    IF s # <<>> /\ ~IsDigit(Head(s)) /\ Head(s) # "." THEN 1 + UnitRun(Tail(s)) ELSE 0

\* Nanoseconds per second (getCtime, getMtime).
NsPerSec == 1000000000

\* time.ParseDuration's unit table (nanoseconds per unit) up to the second; 0
\* for text that is no unit.
UnitNanos(u) ==
    IF u = <<"n", "s">> THEN 1
    ELSE IF u = <<"u", "s">> THEN 1000
    ELSE IF u = <<"m", "s">> THEN 1000000
    ELSE IF u = <<"s">> THEN NsPerSec
    ELSE 0

\* The loop of time.ParseDuration over "<digits><unit>" groups.
RECURSIVE ParseDurationGroups(_, _)
ParseDurationGroups(s, acc) ==
    IF s = <<>> THEN [err |-> FALSE, val |-> acc]
    ELSE LET nd == DigitRun(s)
             afterDigits == SubSeq(s, nd + 1, Len(s))
             nu == UnitRun(afterDigits)
             unit == UnitNanos(SubSeq(afterDigits, 1, nu))
         IN  IF nd = 0 \/ nu = 0 \/ unit = 0 THEN [err |-> TRUE, val |-> 0]
             ELSE ParseDurationGroups(SubSeq(afterDigits, nu + 1, Len(afterDigits)),
                                      acc + DigitsValue(SubSeq(s, 1, nd), 10, 0) * unit)

\* time.ParseDuration for text without a fraction: an optional sign, then "0"
\* alone or one or more groups of digits and a unit.
ParseDuration(s) ==
    LET neg == s # <<>> /\ Head(s) = "-"
        body == IF s # <<>> /\ Head(s) \in {"-", "+"} THEN Tail(s) ELSE s
    IN  IF s = <<>> THEN [err |-> TRUE, val |-> 0]
        ELSE IF body = <<"0">> THEN [err |-> FALSE, val |-> 0]
        ELSE IF body = <<>> THEN [err |-> TRUE, val |-> 0]
        ELSE LET r == ParseDurationGroups(body, 0)
             IN  IF r.err THEN r
                 ELSE [err |-> FALSE, val |-> IF neg THEN -r.val ELSE r.val]

\* hex.EncodeToString
RECURSIVE HexEncode(_)
HexEncode(bytes) ==
    IF bytes = <<>> THEN <<>>
    ELSE <<HexChars[(Head(bytes) \div 16) + 1], HexChars[(Head(bytes) % 16) + 1]>>
         \o HexEncode(Tail(bytes))

\* ------------------------------------------------------------ configuration

\* The fields of S3TreeClone the comparator and the uploader read: the
\* root-squash substitutes (0 when -root-squash is off) and -ignore-timestamps.
VARIABLES rootUID, rootGID, ignoreTimestamps

cfgVars == <<rootUID, rootGID, ignoreTimestamps>>

\* ------------------------------------------------------- metadata and digests

\* The permission bits of a mode: stat.Mode & 07777.
PermMask == 4096

\* The file-type bits of a mode (stat.Mode & S_IFMT) for a directory and for a
\* regular file.
S_IFDIR == 16384
S_IFREG == 32768

FileType(mode) == (mode \div PermMask) * PermMask

\* fileinfo.Mode().IsDir() and .IsRegular()
IsDir(mode) == FileType(mode) = S_IFDIR
IsRegular(mode) == FileType(mode) = S_IFREG

\* stat_linux.go / stat_darwin.go
getCtime(stat) == stat.Ctim.Nsec + stat.Ctim.Sec * NsPerSec
getMtime(stat) == stat.Mtim.Nsec + stat.Mtim.Sec * NsPerSec

NoMetadata == [k \in {} |-> <<>>]

\* hoo.Metadata[k] of Go: the empty string for a key that is absent.
MetaGet(md, k) == IF k \in DOMAIN md THEN md[k] ELSE <<>>

\* md with md[k] = v.
MetaSet(md, k, v) == [x \in DOMAIN md \cup {k} |-> IF x = k THEN v ELSE md[x]]

\* md without the key k.
MetaDel(md, k) == [x \in DOMAIN md \ {k} |-> md[x]]

fileOwnershipEqual(hoo, id, ownerType) ==
    IF ownerType \notin DOMAIN hoo.Metadata THEN FALSE
    ELSE LET r == ParseUint(hoo.Metadata[ownerType], 10, 32)
         IN  IF r.err THEN FALSE
             ELSE IF r.val # id THEN FALSE
             ELSE TRUE

fileTimestampEqual(hoo, timestamp, field) ==
    IF field \notin DOMAIN hoo.Metadata THEN FALSE
    ELSE LET r == ParseDuration(hoo.Metadata[field])
         IN  IF r.err THEN FALSE
             ELSE IF r.val # timestamp THEN FALSE
             ELSE TRUE

\* A comparator that compares the permissions without masking the local mode.
FileMetadataEqualNoMask(hoo, stat, isDir) ==
    /\ isDir \/ hoo.ContentLength = stat.Size
    /\ fileOwnershipEqual(hoo, IF stat.Uid = 0 THEN rootUID ELSE stat.Uid, "file-owner")
    /\ fileOwnershipEqual(hoo, IF stat.Gid = 0 THEN rootGID ELSE stat.Gid, "file-group")
    /\ "file-permissions" \in DOMAIN hoo.Metadata
    /\ LET r == ParseUint(hoo.Metadata["file-permissions"], 8, 16)
       IN  ~r.err /\ r.val = stat.Mode % (MaxUint16 + 1)
    /\ \/ ignoreTimestamps
       \/ /\ fileTimestampEqual(hoo, getCtime(stat), "file-ctime")
          /\ fileTimestampEqual(hoo, getMtime(stat), "file-mtime")

\* A comparator that compares the size for a directory too.
FileMetadataEqualSizeAlways(hoo, stat, isDir) ==
    /\ hoo.ContentLength = stat.Size
    /\ fileOwnershipEqual(hoo, IF stat.Uid = 0 THEN rootUID ELSE stat.Uid, "file-owner")
    /\ fileOwnershipEqual(hoo, IF stat.Gid = 0 THEN rootGID ELSE stat.Gid, "file-group")
    /\ "file-permissions" \in DOMAIN hoo.Metadata
    /\ LET r == ParseUint(hoo.Metadata["file-permissions"], 8, 16)
       IN  ~r.err /\ r.val = stat.Mode % PermMask
    /\ \/ ignoreTimestamps
       \/ /\ fileTimestampEqual(hoo, getCtime(stat), "file-ctime")
          /\ fileTimestampEqual(hoo, getMtime(stat), "file-mtime")

\* A comparator that compares the timestamps whatever -ignore-timestamps says.
FileMetadataEqualTimesAlways(hoo, stat, isDir) ==
    /\ isDir \/ hoo.ContentLength = stat.Size
    /\ fileOwnershipEqual(hoo, IF stat.Uid = 0 THEN rootUID ELSE stat.Uid, "file-owner")
    /\ fileOwnershipEqual(hoo, IF stat.Gid = 0 THEN rootGID ELSE stat.Gid, "file-group")
    /\ "file-permissions" \in DOMAIN hoo.Metadata
    /\ LET r == ParseUint(hoo.Metadata["file-permissions"], 8, 16)
       IN  ~r.err /\ r.val = stat.Mode % PermMask
    /\ fileTimestampEqual(hoo, getCtime(stat), "file-ctime")
    /\ fileTimestampEqual(hoo, getMtime(stat), "file-mtime")

FileMetadataEqual(hoo, stat, isDir) ==
    IF ~isDir /\ hoo.ContentLength # stat.Size THEN FALSE
    ELSE LET uid == IF stat.Uid = 0 THEN rootUID ELSE stat.Uid
             gid == IF stat.Gid = 0 THEN rootGID ELSE stat.Gid
         IN  IF \/ ~fileOwnershipEqual(hoo, uid, "file-owner")
                \/ ~fileOwnershipEqual(hoo, gid, "file-group")
             THEN FALSE
             ELSE IF "file-permissions" \notin DOMAIN hoo.Metadata THEN FALSE
             ELSE LET s3Perms == ParseUint(hoo.Metadata["file-permissions"], 8, 16)
                  IN  IF s3Perms.err THEN FALSE
                      ELSE IF s3Perms.val % (MaxUint16 + 1) # (stat.Mode % PermMask) % (MaxUint16 + 1)
                           THEN FALSE
                      ELSE IF /\ ~ignoreTimestamps
                              /\ \/ ~fileTimestampEqual(hoo, getCtime(stat), "file-ctime")
                                 \/ ~fileTimestampEqual(hoo, getMtime(stat), "file-mtime")
                           THEN FALSE
                      ELSE TRUE

\* The four digests of a file's content, each a byte string of its own: a
\* different content has a different digest under every algorithm.
getFileHashes(content) ==
    [nil |-> FALSE,
     MD5 |-> <<16 * content.id + 10>>,
     SHA1 |-> <<16 * content.id + 11>>,
     SHA256 |-> <<16 * content.id + 12>>,
     SHA512 |-> <<16 * content.id + 13>>]

\* A nil *Hashes.
NilHashes == [nil |-> TRUE, MD5 |-> <<>>, SHA1 |-> <<>>, SHA256 |-> <<>>, SHA512 |-> <<>>]

\* A digest check that wants every digest the header carries to match.
compareFileHashesEveryDigest(hoo, content, readable) ==
    LET metadata == hoo.Metadata
        hashes == getFileHashes(content)
        matches(k, local) == MetaGet(metadata, k) \in {<<>>, HexEncode(local)}
    IN  IF \A k \in {"sha512", "sha256", "sha1", "md5"} : MetaGet(metadata, k) = <<>>
        THEN [hashes |-> NilHashes, equal |-> TRUE, err |-> FALSE]
        ELSE IF ~readable THEN [hashes |-> NilHashes, equal |-> FALSE, err |-> TRUE]
        ELSE [hashes |-> hashes,
              equal |-> /\ matches("sha512", hashes.SHA512)
                        /\ matches("sha256", hashes.SHA256)
                        /\ matches("sha1", hashes.SHA1)
                        /\ matches("md5", hashes.MD5),
              err |-> FALSE]

\* A digest check that takes a digest key with an empty value as a digest.
compareFileHashesByKey(hoo, content, readable) ==
    LET metadata == hoo.Metadata
        hashes == getFileHashes(content)
        has(k) == k \in DOMAIN metadata
    IN  IF ~has("sha512") /\ ~has("sha256") /\ ~has("sha1") /\ ~has("md5")
        THEN [hashes |-> NilHashes, equal |-> TRUE, err |-> FALSE]
        ELSE IF ~readable THEN [hashes |-> NilHashes, equal |-> FALSE, err |-> TRUE]
        ELSE IF has("sha512")
             THEN [hashes |-> hashes, equal |-> metadata["sha512"] = HexEncode(hashes.SHA512),
                   err |-> FALSE]
        ELSE IF has("sha256")
             THEN [hashes |-> hashes, equal |-> metadata["sha256"] = HexEncode(hashes.SHA256),
                   err |-> FALSE]
        ELSE IF has("sha1")
             THEN [hashes |-> hashes, equal |-> metadata["sha1"] = HexEncode(hashes.SHA1),
                   err |-> FALSE]
        ELSE [hashes |-> hashes, equal |-> metadata["md5"] = HexEncode(hashes.MD5),
              err |-> FALSE]

\* compareFileHashes: readable says whether the local file can be opened and
\* read through.
compareFileHashes(hoo, content, readable) ==
    LET metadata == hoo.Metadata
        s3SHA512 == MetaGet(metadata, "sha512")
        s3SHA256 == MetaGet(metadata, "sha256")
        s3SHA1 == MetaGet(metadata, "sha1")
        s3MD5 == MetaGet(metadata, "md5")
        hashes == getFileHashes(content)
        localSHA512 == HexEncode(hashes.SHA512)
        localSHA256 == HexEncode(hashes.SHA256)
        localSHA1 == HexEncode(hashes.SHA1)
        localMD5 == HexEncode(hashes.MD5)
    IN  IF s3SHA512 = <<>> /\ s3SHA256 = <<>> /\ s3SHA1 = <<>> /\ s3MD5 = <<>>
        THEN [hashes |-> NilHashes, equal |-> TRUE, err |-> FALSE]
        ELSE IF ~readable THEN [hashes |-> NilHashes, equal |-> FALSE, err |-> TRUE]
        ELSE IF s3SHA512 # <<>>
             THEN [hashes |-> hashes, equal |-> s3SHA512 = localSHA512, err |-> FALSE]
        ELSE IF s3SHA256 # <<>>
             THEN [hashes |-> hashes, equal |-> s3SHA256 = localSHA256, err |-> FALSE]
        ELSE IF s3SHA1 # <<>>
             THEN [hashes |-> hashes, equal |-> s3SHA1 = localSHA1, err |-> FALSE]
        ELSE [hashes |-> hashes, equal |-> s3MD5 = localMD5, err |-> FALSE]

\* The five POSIX keys and the agent tag, as UploadDir and UploadFile build
\* them from the ids already substituted.
PosixMetadata(uid, gid, stat) ==
    [k \in {"file-owner", "file-group", "file-permissions", "file-ctime", "file-mtime",
            "user-agent"} |->
        IF k = "file-owner" THEN FormatDec(uid)
        ELSE IF k = "file-group" THEN FormatDec(gid)
        ELSE IF k = "file-permissions" THEN FormatOct4(stat.Mode % PermMask)
        ELSE IF k = "file-ctime" THEN FormatDec(getCtime(stat)) \o <<"n", "s">>
        ELSE IF k = "file-mtime" THEN FormatDec(getMtime(stat)) \o <<"n", "s">>
        ELSE <<"s", "3", "-", "t", "r", "e", "e", "-", "c", "l", "o", "n", "e">>]

\* UploadDir's metadata with the user substitute written for the group too.
UploadDirMetadataOneId(stat) ==
    LET uid == IF stat.Uid = 0 THEN rootUID ELSE stat.Uid
        gid == IF stat.Gid = 0 THEN rootUID ELSE stat.Gid
    IN  PosixMetadata(uid, gid, stat)

\* UploadDir: the metadata of a directory marker.
UploadDirMetadata(stat) ==
    LET uid == IF stat.Uid = 0 THEN rootUID ELSE stat.Uid
        gid == IF stat.Gid = 0 THEN rootGID ELSE stat.Gid
    IN  PosixMetadata(uid, gid, stat)

\* UploadFile's metadata with the modification time written for both times.
UploadFileMetadataMtimeOnly(stat, hashes) ==
    LET uid == IF stat.Uid = 0 THEN rootUID ELSE stat.Uid
        gid == IF stat.Gid = 0 THEN rootGID ELSE stat.Gid
        posix == PosixMetadata(uid, gid, stat)
    IN  [k \in DOMAIN posix \cup {"md5", "sha1", "sha256", "sha512"} |->
            IF k = "md5" THEN HexEncode(hashes.MD5)
            ELSE IF k = "sha1" THEN HexEncode(hashes.SHA1)
            ELSE IF k = "sha256" THEN HexEncode(hashes.SHA256)
            ELSE IF k = "sha512" THEN HexEncode(hashes.SHA512)
            ELSE IF k = "file-ctime" THEN posix["file-mtime"]
            ELSE posix[k]]

\* UploadFile: the metadata of a file object, with the four digests.
UploadFileMetadata(stat, hashes) ==
    LET uid == IF stat.Uid = 0 THEN rootUID ELSE stat.Uid
        gid == IF stat.Gid = 0 THEN rootGID ELSE stat.Gid
        posix == PosixMetadata(uid, gid, stat)
    IN  [k \in DOMAIN posix \cup {"md5", "sha1", "sha256", "sha512"} |->
            IF k = "md5" THEN HexEncode(hashes.MD5)
            ELSE IF k = "sha1" THEN HexEncode(hashes.SHA1)
            ELSE IF k = "sha256" THEN HexEncode(hashes.SHA256)
            ELSE IF k = "sha512" THEN HexEncode(hashes.SHA512)
            ELSE posix[k]]

\* The object a successful PutObject / Upload stores: the length of the body
\* sent and the metadata of the request.
StoredObject(bodyLen, metadata) == [ContentLength |-> bodyLen, Metadata |-> metadata]

\* ------------------------------------------------- the per-entry decision

\* The result of HeadObject as HandleFile sees it: the object's header, the
\* NotFound error, or any other error (hoo is nil with either error).
ProbeOk(obj) == [kind |-> "ok", hoo |-> obj]
ProbeNotFound == [kind |-> "notfound", hoo |-> StoredObject(0, NoMetadata)]
ProbeError == [kind |-> "error", hoo |-> StoredObject(0, NoMetadata)]

\* A decision that never raises the upload flag for a digest mismatch.
HandleFileCompareNoDigest(probe, stat, content, readable) ==
    LET isDir == IsDir(stat.Mode)
        metaEq == probe.kind = "ok" /\ FileMetadataEqual(probe.hoo, stat, isDir)
        c == compareFileHashes(probe.hoo, content, readable)
    IN  IF isDir \/ probe.kind # "ok"
        THEN [abort |-> FALSE, uploadRequired |-> ~metaEq, hashes |-> NilHashes,
              metaEq |-> metaEq, compared |-> probe.kind = "ok", digest |-> "none"]
        ELSE [abort |-> c.err, uploadRequired |-> ~metaEq, hashes |-> c.hashes,
              metaEq |-> metaEq, compared |-> probe.kind = "ok",
              digest |-> IF c.err THEN "error" ELSE IF c.hashes.nil THEN "skipped"
                         ELSE IF c.equal THEN "equal" ELSE "differ"]

\* A decision that takes NotFound alone, of the probe's failures, as must-upload.
HandleFileCompareNotFoundOnly(probe, stat, content, readable) ==
    LET isDir == IsDir(stat.Mode)
        metaEq == probe.kind = "ok" /\ FileMetadataEqual(probe.hoo, stat, isDir)
        metaUpload == probe.kind = "notfound" \/ (probe.kind = "ok" /\ ~metaEq)
    IN  IF isDir \/ probe.kind # "ok"
        THEN [abort |-> FALSE, uploadRequired |-> metaUpload, hashes |-> NilHashes,
              metaEq |-> metaEq, compared |-> probe.kind = "ok", digest |-> "none"]
        ELSE LET c == compareFileHashes(probe.hoo, content, readable)
             IN  IF c.err
                 THEN [abort |-> TRUE, uploadRequired |-> metaUpload, hashes |-> NilHashes,
                       metaEq |-> metaEq, compared |-> TRUE, digest |-> "error"]
                 ELSE [abort |-> FALSE,
                       uploadRequired |-> IF ~c.equal THEN TRUE ELSE metaUpload,
                       hashes |-> c.hashes,
                       metaEq |-> metaEq,
                       compared |-> TRUE,
                       digest |-> IF c.hashes.nil THEN "skipped"
                                  ELSE IF c.equal THEN "equal" ELSE "differ"]

\* HandleFile from the probe's return to the upload decision: the metadata
\* verdict (compared: FileMetadataEqual was called), then for a file whose
\* probe succeeded the digest verdict. abort is the return after a digest
\* failure.
HandleFileCompare(probe, stat, content, readable) ==
    LET isDir == IsDir(stat.Mode)
        metaEq == probe.kind = "ok" /\ FileMetadataEqual(probe.hoo, stat, isDir)
        metaUpload == IF probe.kind # "ok" THEN TRUE ELSE ~metaEq
    IN  IF isDir \/ probe.kind # "ok"
        THEN [abort |-> FALSE, uploadRequired |-> metaUpload, hashes |-> NilHashes,
              metaEq |-> metaEq, compared |-> probe.kind = "ok", digest |-> "none"]
        ELSE LET c == compareFileHashes(probe.hoo, content, readable)
             IN  IF c.err
                 THEN [abort |-> TRUE, uploadRequired |-> metaUpload, hashes |-> NilHashes,
                       metaEq |-> metaEq, compared |-> TRUE, digest |-> "error"]
                 ELSE [abort |-> FALSE,
                       uploadRequired |-> IF ~c.equal THEN TRUE ELSE metaUpload,
                       hashes |-> c.hashes,
                       metaEq |-> metaEq,
                       compared |-> TRUE,
                       digest |-> IF c.hashes.nil THEN "skipped"
                                  ELSE IF c.equal THEN "equal" ELSE "differ"]

\* What HandleFile writes to os.Stderr between the probe's return and the
\* upload decision: the probe's error unless it is NotFound, the digest failure,
\* the digest mismatch.
HandleFileStderr(probe, d) ==
    (IF probe.kind = "error" THEN {"HeadObject failed"} ELSE {})
    \cup (IF d.digest = "error" THEN {"Unable to get hashes"} ELSE {})
    \cup (IF d.digest = "differ" THEN {"File hashes differ"} ELSE {})

\* The generic binary content type.
OctetStream == "application/octet-stream"

\* mimetype.DetectFile and its fallback in UploadFile: the type sniffed from
\* the content, the generic binary type for a content no signature matches or
\* a file that cannot be read.
DetectFile(content, readable) ==
    IF readable /\ content.id = 1 THEN "text/plain; charset=utf-8" ELSE OctetStream

\* An UploadFile that writes the digests only when it computed them itself.
UploadFilePrepareFreshOnly(stat, hashes, content, readable) ==
    IF ~readable
    THEN [ok |-> FALSE, metadata |-> NoMetadata, hashed |-> FALSE, contentType |-> OctetStream,
          offset |-> 0]
    ELSE [ok |-> TRUE,
          metadata |-> IF hashes.nil THEN UploadFileMetadata(stat, getFileHashes(content))
                       ELSE UploadDirMetadata(stat),
          hashed |-> hashes.nil,
          contentType |-> DetectFile(content, readable),
          offset |-> 0]

\* An UploadFile that hashes the file whether or not hashes were handed over.
UploadFilePrepareRehash(stat, hashes, content, readable) ==
    IF ~readable
    THEN [ok |-> FALSE, metadata |-> NoMetadata, hashed |-> FALSE, contentType |-> OctetStream,
          offset |-> 0]
    ELSE [ok |-> TRUE, metadata |-> UploadFileMetadata(stat, getFileHashes(content)),
          hashed |-> TRUE, contentType |-> DetectFile(content, readable), offset |-> 0]

\* UploadFile up to the limiter: the content type is detected, the file is
\* opened and, when no hashes were handed over, hashed; ok is FALSE when the
\* open or the digest pass fails. offset is where the opened stream stands
\* when it is handed over as the body: os.Open leaves it at 0, getFileHashes
\* reads it to the end, Seek(0, io.SeekStart) puts it back.
UploadFilePrepare(stat, hashes, content, readable) ==
    IF ~readable
    THEN [ok |-> FALSE, metadata |-> NoMetadata, hashed |-> FALSE, contentType |-> OctetStream,
          offset |-> 0]
    ELSE LET h == IF hashes.nil THEN getFileHashes(content) ELSE hashes
             opened == 0
             afterHashes == IF hashes.nil THEN content.len ELSE opened
             afterSeek == IF hashes.nil THEN 0 ELSE afterHashes
         IN  [ok |-> TRUE, metadata |-> UploadFileMetadata(stat, h), hashed |-> hashes.nil,
              contentType |-> DetectFile(content, readable), offset |-> afterSeek]

\* UploadDir up to the limiter: the body is an empty reader.
UploadDirPrepare(stat) ==
    [ok |-> TRUE, metadata |-> UploadDirMetadata(stat), hashed |-> FALSE,
     contentType |-> OctetStream, offset |-> 0]

\* No put request.
NoSent ==
    [put |-> FALSE, bodyLen |-> 0, contentType |-> "", metadata |-> NoMetadata,
     hashed |-> FALSE]

\* ------------------------------------------------------------ key walk (state)

\* dest: the destination argument; bucket, prefix: the fields SetBucketAndPrefix
\* sets; kpc: where the key walk stands; kRelPath: the relPath argument of the
\* current WalkDirectory call; kTrail: the directory names descended so far;
\* kName, kIsDir, kKey: the entry last handled and the key HandleFile built.
VARIABLES dest, bucket, prefix, kpc, kRelPath, kTrail, kName, kIsDir, kKey

keyVars == <<dest, bucket, prefix, kpc, kRelPath, kTrail, kName, kIsDir, kKey>>

\* The entry the sequential handler runs on: its stat result and content
\* (sStat, sContent), the object stored under its key (sRemote), the number of
\* handler runs so far (sRuns) and what the last run did (sLast).
VARIABLES sStat, sContent, sRemote, sRuns, sLast

syncVars == <<sStat, sContent, sRemote, sRuns, sLast>>

\* The run. tree: the entries the source holds; filter: the name filter of the
\* first WalkDirectory call; maxConcurrent: -max-concurrent; bucket0: what the
\* bucket held at the start; mainpc: where run stands; walk: the WalkDirectory
\* call of run ("main") and of each directory handler; handler: the HandleFile
\* goroutine of each entry; wg: the WaitGroup counter; semCur, semWaiters: the
\* weighted semaphore; objects: the bucket; launches, probes, uploadCalls, puts:
\* per entry, the handlers started, the HeadObject calls, the UploadFile /
\* UploadDir calls and the put requests sent; failed, nFaults: the failures the
\* environment produced.
VARIABLES tree, filter, maxConcurrent, bucket0, mainpc, walk, handler, wg, semCur, semWaiters,
          objects, launches, probes, uploadCalls, puts, failed, nFaults

\* run before the first WalkDirectory. args: the command line and the client
\* argument of run; startpc: where run stands; baseDir: stc.baseDir; cause: why
\* run returned before the walk; locCalls: the GetBucketLocation calls issued.
VARIABLES args, startpc, baseDir, cause, locCalls

startVars == <<args, startpc, baseDir, cause, locCalls>>

\* cancelled: the context of run is done; blockedAt: per entry, the acquisition
\* its handler was blocked in when the context ended.
VARIABLES cancelled, blockedAt

cancelVars == <<cancelled, blockedAt>>

runVars == <<tree, filter, maxConcurrent, bucket0, mainpc, walk, handler, wg, semCur, semWaiters,
             objects, launches, probes, uploadCalls, puts, failed, nFaults, startVars,
             cancelVars>>

vars == <<keyVars, cfgVars, syncVars, runVars>>

RunIdle ==
    /\ tree = {}
    /\ filter = <<>>
    /\ maxConcurrent = 0
    /\ bucket0 = "empty"
    /\ mainpc = "off"
    /\ walk = <<>>
    /\ handler = <<>>
    /\ wg = 0
    /\ semCur = 0
    /\ semWaiters = <<>>
    /\ objects = <<>>
    /\ launches = <<>>
    /\ probes = <<>>
    /\ uploadCalls = <<>>
    /\ puts = <<>>
    /\ failed = {}
    /\ nFaults = 0
    /\ args = <<>>
    /\ startpc = "off"
    /\ baseDir = <<>>
    /\ cause = "-"
    /\ locCalls = 0
    /\ cancelled = FALSE
    /\ blockedAt = <<>>

\* The part of the state a specification leaves alone, at rest.
NoLast ==
    [probe |-> "none", hoo |-> StoredObject(0, NoMetadata), metaEq |-> FALSE,
     digest |-> "none", uploadRequired |-> FALSE, uploadCalls |-> 0, puts |-> 0,
     stored |-> FALSE, hashPasses |-> 0, prevStored |-> FALSE, compared |-> FALSE,
     stderr |-> {}, sent |-> NoSent]

Absent == [present |-> FALSE, obj |-> StoredObject(0, NoMetadata)]
Present(obj) == [present |-> TRUE, obj |-> obj]

KeyWalkOff ==
    /\ kpc = "off"
    /\ kRelPath = <<>>
    /\ kTrail = <<>>
    /\ kName = <<>>
    /\ kIsDir = FALSE
    /\ kKey = <<>>

KeyIdle ==
    /\ dest = <<>>
    /\ bucket = <<>>
    /\ prefix = <<>>
    /\ KeyWalkOff

SyncIdle ==
    /\ sStat = [Size |-> 0, Uid |-> 0, Gid |-> 0, Mode |-> S_IFREG,
                Ctim |-> [Sec |-> 0, Nsec |-> 0], Mtim |-> [Sec |-> 0, Nsec |-> 0]]
    /\ sContent = [id |-> 0, len |-> 0]
    /\ sRemote = Absent
    /\ sRuns = 0
    /\ sLast = NoLast

\* Text that can follow "s3://" on the command line.
DestAlphabet == {"a", ".", Sep}
DestTails == StringsUpTo(DestAlphabet, MaxDestLen)

\* Names a directory listing can return: any name but "." and "..", without
\* a separator.
LeafNames == {<<"a">>, <<".", "a">>, <<".", ".", ".">>}

KeyInit ==
    /\ dest \in {S3Scheme \o t : t \in DestTails} \cup {<<"s", "3", ":", "/", "a">>}
    /\ bucket = <<>>
    /\ prefix = <<>>
    /\ kpc = "config"
    /\ kRelPath = <<>>
    /\ kTrail = <<>>
    /\ kName = <<>>
    /\ kIsDir = FALSE
    /\ kKey = <<>>
    /\ rootUID = 0
    /\ rootGID = 0
    /\ ignoreTimestamps = FALSE
    /\ SyncIdle
    /\ RunIdle

\* run: the destination argument is parsed; a destination that is no S3 URL
\* ends the run with a usage error.
KeySetBucketAndPrefix ==
    /\ kpc = "config"
    /\ LET r == SetBucketAndPrefix(dest)
       IN  /\ bucket' = r.bucket
           /\ prefix' = r.prefix
           /\ kpc' = IF r.err THEN "usage" ELSE "walk"
    /\ UNCHANGED <<dest, kRelPath, kTrail, kName, kIsDir, kKey, cfgVars, syncVars, runVars>>

\* HandleFile for one entry of the directory at kRelPath: its key.
KeyHandleFile ==
    /\ kpc \in {"walk", "handled"}
    /\ \E name \in LeafNames, isDir \in BOOLEAN :
        /\ kName' = name
        /\ kIsDir' = isDir
        /\ kKey' = HandleFileKey(prefix, kRelPath, name, isDir)
    /\ kpc' = "handled"
    /\ UNCHANGED <<dest, bucket, prefix, kRelPath, kTrail, cfgVars, syncVars, runVars>>

\* HandleFile for a directory goes on to WalkDirectory(subdir, ...).
KeyWalkDirectory ==
    /\ kpc = "handled"
    /\ kIsDir
    /\ Len(kTrail) < MaxDepth
    /\ kRelPath' = HandleFileSubdir(kRelPath, kName)
    /\ kTrail' = Append(kTrail, kName)
    /\ kpc' = "walk"
    /\ UNCHANGED <<dest, bucket, prefix, kName, kIsDir, kKey, cfgVars, syncVars, runVars>>

KeyNext == KeySetBucketAndPrefix \/ KeyHandleFile \/ KeyWalkDirectory

SpecKey == KeyInit /\ [][KeyNext]_vars

\* ------------------------------------------------- one entry, handled in turn

\* Bound on the handler runs over the one entry.
MaxSyncRuns == 2
\* Bound on the failures the environment produces within one handler run.
MaxSyncFaults == 1

\* The nfsnobody ids SetRootFromNFSNobody stores with -root-squash.
NobodyUID == 65534
NobodyGID == 65533

Modes == {S_IFREG + 420, S_IFREG + 2541, S_IFDIR + 493, PermMask + 420}
Contents == {[id |-> 1, len |-> 5], [id |-> 2, len |-> 5]}
Times == {[Sec |-> 0, Nsec |-> 1500], [Sec |-> 1, Nsec |-> 5]}

\* What os.Stat can return for an entry with the given content.
LocalStats(content) ==
    {[Size |-> content.len, Uid |-> u, Gid |-> g, Mode |-> m,
      Ctim |-> [Sec |-> 1, Nsec |-> 5], Mtim |-> t] :
        u \in {0, 7}, g \in {0, 7}, m \in Modes, t \in Times}

\* The object a conforming writer (a file gateway, an earlier run) keeps for
\* the entry under the persisted schema: decimal owner and group, 4-digit
\* octal permissions, "<integer>ns" times and, for a file, lowercase hex
\* digests of the content.
ConformingObject(stat, content, uid, gid) ==
    LET isDir == IsDir(stat.Mode)
        keys == {"file-owner", "file-group", "file-permissions", "file-ctime", "file-mtime"}
                \cup (IF isDir THEN {} ELSE {"md5", "sha1", "sha256", "sha512"})
    IN  StoredObject(
            IF isDir THEN 0 ELSE content.len,
            [k \in keys |->
                IF k = "file-owner" THEN FormatBase(uid, 10)
                ELSE IF k = "file-group" THEN FormatBase(gid, 10)
                ELSE IF k = "file-permissions" THEN PadLeft(FormatBase(stat.Mode % PermMask, 8), 4)
                ELSE IF k = "file-ctime"
                     THEN FormatBase(stat.Ctim.Sec * NsPerSec + stat.Ctim.Nsec, 10) \o <<"n", "s">>
                ELSE IF k = "file-mtime"
                     THEN FormatBase(stat.Mtim.Sec * NsPerSec + stat.Mtim.Nsec, 10) \o <<"n", "s">>
                ELSE IF k = "md5" THEN HexEncode(<<16 * content.id + 10>>)
                ELSE IF k = "sha1" THEN HexEncode(<<16 * content.id + 11>>)
                ELSE IF k = "sha256" THEN HexEncode(<<16 * content.id + 12>>)
                ELSE HexEncode(<<16 * content.id + 13>>)])

Perturbations ==
    {"none", "size", "owner-missing", "owner-bad", "owner-other", "owner-zeros",
     "group-other", "group-missing", "perm-missing", "perm-short", "perm-other", "perm-bad",
     "ctime-missing", "ctime-other", "ctime-groups", "mtime-other", "mtime-bad",
     "no-digests", "md5-only-wrong", "md5-only-right", "sha512-wrong", "md5-wrong",
     "sha1-only-empty", "sha256-top-wrong", "sha1-top-md5-wrong",
     "no-digests-perm-other"}

WrongDigest == <<"0", "0">>

OnlyDigest(md, k, v) ==
    MetaSet(MetaDel(MetaDel(MetaDel(MetaDel(md, "md5"), "sha1"), "sha256"), "sha512"), k, v)

\* A remote object that differs from obj in one respect.
Perturb(obj, p) ==
    LET md == obj.Metadata
        with(k, v) == [obj EXCEPT !.Metadata = MetaSet(md, k, v)]
        without(k) == [obj EXCEPT !.Metadata = MetaDel(md, k)]
    IN  CASE p = "none" -> obj
          [] p = "size" -> [obj EXCEPT !.ContentLength = @ + 1]
          [] p = "owner-missing" -> without("file-owner")
          [] p = "owner-bad" -> with("file-owner", <<"x">>)
          [] p = "owner-other" -> with("file-owner", <<"9">>)
          [] p = "owner-zeros" -> with("file-owner", <<"0">> \o md["file-owner"])
          [] p = "group-other" -> with("file-group", <<"9">>)
          [] p = "group-missing" -> without("file-group")
          [] p = "perm-missing" -> without("file-permissions")
          [] p = "perm-short" -> with("file-permissions", Tail(md["file-permissions"]))
          [] p = "perm-other" -> with("file-permissions", <<"0", "6", "0", "0">>)
          [] p = "perm-bad" -> with("file-permissions", <<"0", "6", "8", "4">>)
          [] p = "ctime-missing" -> without("file-ctime")
          [] p = "ctime-other" -> with("file-ctime", <<"7", "n", "s">>)
          [] p = "ctime-groups" -> with("file-ctime", <<"0", "u", "s">> \o md["file-ctime"])
          [] p = "mtime-other" -> with("file-mtime", <<"7", "n", "s">>)
          [] p = "mtime-bad" -> with("file-mtime", <<"1", "5", "0", "0">>)
          [] p = "no-digests" ->
                [obj EXCEPT !.Metadata =
                    MetaDel(MetaDel(MetaDel(MetaDel(md, "md5"), "sha1"), "sha256"), "sha512")]
          [] p = "md5-only-wrong" -> [obj EXCEPT !.Metadata = OnlyDigest(md, "md5", WrongDigest)]
          [] p = "md5-only-right" ->
                [obj EXCEPT !.Metadata = OnlyDigest(md, "md5", MetaGet(md, "md5"))]
          [] p = "sha512-wrong" -> with("sha512", WrongDigest)
          [] p = "md5-wrong" -> with("md5", WrongDigest)
          [] p = "sha1-only-empty" -> [obj EXCEPT !.Metadata = OnlyDigest(md, "sha1", <<>>)]
          [] p = "no-digests-perm-other" ->
                [obj EXCEPT !.Metadata =
                    MetaSet(MetaDel(MetaDel(MetaDel(MetaDel(md, "md5"), "sha1"), "sha256"),
                                    "sha512"),
                            "file-permissions", <<"0", "6", "0", "0">>)]
          [] p = "sha256-top-wrong" ->
                [obj EXCEPT !.Metadata = MetaSet(MetaDel(md, "sha512"), "sha256", WrongDigest)]
          [] p = "sha1-top-md5-wrong" ->
                [obj EXCEPT !.Metadata =
                    MetaSet(MetaDel(MetaDel(md, "sha512"), "sha256"), "md5", WrongDigest)]

SyncInit ==
    /\ KeyIdle
    /\ RunIdle
    /\ \E squash \in BOOLEAN :
        /\ rootUID = IF squash THEN NobodyUID ELSE 0
        /\ rootGID = IF squash THEN NobodyGID ELSE 0
    /\ ignoreTimestamps \in BOOLEAN
    /\ sContent \in Contents
    /\ sStat \in LocalStats(sContent)
    /\ sRemote \in {Absent} \cup
          {Present(Perturb(ConformingObject(sStat, sContent,
                                            IF sStat.Uid = 0 THEN rootUID ELSE sStat.Uid,
                                            IF sStat.Gid = 0 THEN rootGID ELSE sStat.Gid), p)) :
              p \in Perturbations}
    /\ sRuns = 0
    /\ sLast = NoLast

\* HandleFile on the entry from the upload decision d on: the upload (prep is
\* what UploadDir or UploadFile prepared), its outcome, and the record of the
\* run.
SyncUpload(probe, d, prep, putFails) ==
    LET isDir == IsDir(sStat.Mode)
        called == ~d.abort /\ d.uploadRequired
        put == called /\ prep.ok
        stored == put /\ ~putFails
    IN  /\ sLast' = [probe |-> probe.kind, hoo |-> probe.hoo, metaEq |-> d.metaEq,
                     digest |-> d.digest, uploadRequired |-> d.uploadRequired,
                     uploadCalls |-> IF called THEN 1 ELSE 0,
                     puts |-> IF put THEN 1 ELSE 0,
                     stored |-> stored,
                     hashPasses |-> (IF d.digest \in {"equal", "differ"} THEN 1 ELSE 0)
                                    + (IF put /\ prep.hashed THEN 1 ELSE 0),
                     prevStored |-> sLast.stored,
                     compared |-> d.compared,
                     stderr |-> HandleFileStderr(probe, d),
                     sent |-> IF put
                              THEN [put |-> TRUE,
                                    bodyLen |-> IF isDir THEN 0
                                                ELSE sContent.len - prep.offset,
                                    contentType |-> prep.contentType,
                                    metadata |-> prep.metadata,
                                    hashed |-> prep.hashed]
                              ELSE NoSent]
        /\ sRemote' = IF stored
                      THEN Present(StoredObject(IF isDir THEN 0
                                                ELSE sContent.len - prep.offset,
                                                prep.metadata))
                      ELSE sRemote

\* HandleFile on the entry from the comparison's result d on.
SyncDecided(probe, d, upReadable, putFails) ==
    SyncUpload(probe, d,
               IF IsDir(sStat.Mode)
               THEN UploadDirPrepare(sStat)
               ELSE UploadFilePrepare(sStat, d.hashes, sContent, upReadable),
               putFails)

\* HandleFile on the entry from the probe's return on.
SyncProbed(probe, cmpReadable, upReadable, putFails) ==
    SyncDecided(probe, HandleFileCompare(probe, sStat, sContent, cmpReadable),
                upReadable, putFails)

\* HandleFile on the entry, start to end: the stat, the probe, the comparison
\* and the upload. The inputs are the failures the environment can produce: the
\* probe failing with an error other than NotFound, the local file failing to
\* open or read (in the digest check, in the uploader) and the put failing.
SyncHandleFile ==
    /\ sRuns < MaxSyncRuns
    /\ \E faults \in {f \in SUBSET {"probe", "compare", "open", "put"} :
                          Cardinality(f) <= MaxSyncFaults} :
        IF ~IsDir(sStat.Mode) /\ ~IsRegular(sStat.Mode)
        THEN /\ sLast' = NoLast
             /\ sRemote' = sRemote
        ELSE SyncProbed(IF "probe" \in faults THEN ProbeError
                        ELSE IF sRemote.present THEN ProbeOk(sRemote.obj)
                        ELSE ProbeNotFound,
                        "compare" \notin faults, "open" \notin faults, "put" \in faults)
    /\ sRuns' = sRuns + 1
    /\ UNCHANGED <<sStat, sContent, keyVars, cfgVars, runVars>>

SyncNext == SyncHandleFile

SpecSync == SyncInit /\ [][SyncNext]_vars

\* ------------------------------------------------- the run

\* dir.Readdirnames(16)
ReadBatch == 16
\* sem.Acquire(ctx, 1) of the probe and of the marker put
ProbeWeight == 1
\* sem.Acquire(ctx, 5) of the file upload
UploadWeight == 5
\* Bound on the failures the environment produces within one run.
MaxFaults == 1

\* The caller of the first WalkDirectory.
ROOT == "main"

\* The entries a source tree of the model can hold: a directory d and a file f
\* at the top, a file g and a fifo o inside d.
Entries == {"d", "f", "g", "o"}
ParentOf(e) == IF e \in {"g", "o"} THEN "d" ELSE ROOT
NameOf(e) == <<e>>
TreeShapes == {{}, {"f"}, {"d", "f", "g", "o"}}

\* What os.Stat returns for each entry.
StatOf(e) ==
    LET t1 == [Sec |-> 1, Nsec |-> 5]
        t2 == [Sec |-> 0, Nsec |-> 1500]
    IN  CASE e = "d" -> [Size |-> 4096, Uid |-> 0, Gid |-> 7, Mode |-> S_IFDIR + 493,
                         Ctim |-> t1, Mtim |-> t2]
          [] e = "f" -> [Size |-> 5, Uid |-> 7, Gid |-> 0, Mode |-> S_IFREG + 420,
                         Ctim |-> t1, Mtim |-> t1]
          [] e = "g" -> [Size |-> 5, Uid |-> 0, Gid |-> 0, Mode |-> S_IFREG + 2541,
                         Ctim |-> t1, Mtim |-> t2]
          [] e = "o" -> [Size |-> 0, Uid |-> 7, Gid |-> 7, Mode |-> PermMask + 420,
                         Ctim |-> t1, Mtim |-> t1]

ContentOf(e) ==
    IF e = "f" THEN [id |-> 1, len |-> 5]
    ELSE IF e = "g" THEN [id |-> 2, len |-> 5]
    ELSE [id |-> 0, len |-> 0]

\* The destination of the run.
RunDest == S3Scheme \o <<"b", Sep, "p">>

\* The relPath argument HandleFile gets for an entry: "" at the top, the
\* parent's subdir below.
RECURSIVE RelPathOf(_)
RelPathOf(e) ==
    IF ParentOf(e) = ROOT THEN <<>>
    ELSE HandleFileSubdir(RelPathOf(ParentOf(e)), NameOf(ParentOf(e)))

KeyOf(e) == HandleFileKey(prefix, RelPathOf(e), NameOf(e), IsDir(StatOf(e).Mode))

Walkers == {ROOT} \cup {e \in Entries : IsDir(StatOf(e).Mode)}

\* fd is the directory handle of the call: none before os.OpenFile, then open,
\* closed once something has closed it.
IdleWalk ==
    [st |-> "off", unread |-> {}, batch |-> {}, pending |-> "-", err |-> FALSE, fd |-> "none"]

\* A directory listing that names the entries of the source directory alone.
ChildrenOfSourceOnly(w) == IF w = ROOT THEN {e \in tree : ParentOf(e) = w} ELSE {}

\* The names a directory holds, as Readdirnames lists them.
Children(w) == {e \in tree : ParentOf(e) = w}

Bump(f, e) == [f EXCEPT ![e] = @ + 1]

\* The bucket with obj stored under key.
PutObject(objs, key, obj) ==
    [k \in DOMAIN objs \cup {key} |-> IF k = key THEN obj ELSE objs[k]]

\* A bucket that already mirrors the tree.
SyncedBucket(t, pfx, uidSub, gidSub) ==
    LET key(e) == HandleFileKey(pfx, RelPathOf(e), NameOf(e), IsDir(StatOf(e).Mode))
        mirrored == {e \in t : IsDir(StatOf(e).Mode) \/ IsRegular(StatOf(e).Mode)}
    IN  [k \in {key(e) : e \in mirrored} |->
            LET e == CHOOSE x \in mirrored : key(x) = k
            IN  ConformingObject(StatOf(e), ContentOf(e),
                                 IF StatOf(e).Uid = 0 THEN uidSub ELSE StatOf(e).Uid,
                                 IF StatOf(e).Gid = 0 THEN gidSub ELSE StatOf(e).Gid)]

RunInit ==
    /\ KeyWalkOff
    /\ SyncIdle
    /\ dest = RunDest
    /\ bucket = SetBucketAndPrefix(RunDest).bucket
    /\ prefix = SetBucketAndPrefix(RunDest).prefix
    /\ rootUID = NobodyUID
    /\ rootGID = NobodyGID
    /\ ignoreTimestamps = FALSE
    /\ tree \in TreeShapes
    /\ filter \in {<<>>, NameOf("d")}
    /\ maxConcurrent \in {1, 6}
    /\ bucket0 \in {"empty", "synced"}
    /\ objects = IF bucket0 = "empty" THEN <<>>
                 ELSE SyncedBucket(tree, prefix, rootUID, rootGID)
    /\ mainpc = "walk"
    /\ walk = [w \in Walkers |-> IF w = ROOT THEN [IdleWalk EXCEPT !.st = "open"] ELSE IdleWalk]
    /\ handler = [e \in Entries |-> [pc |-> "idle"]]
    /\ wg = 0
    /\ semCur = 0
    /\ semWaiters = <<>>
    /\ launches = [e \in Entries |-> 0]
    /\ probes = [e \in Entries |-> 0]
    /\ uploadCalls = [e \in Entries |-> 0]
    /\ puts = [e \in Entries |-> 0]
    /\ failed = {}
    /\ nFaults = 0
    /\ args = <<>>
    /\ startpc = "off"
    /\ baseDir = Dot
    /\ cause = "-"
    /\ locCalls = 0
    /\ cancelled = FALSE
    /\ blockedAt = [e \in Entries |-> "-"]

runStatic == <<tree, filter, maxConcurrent, bucket0, startVars, cancelVars>>
notRun == <<keyVars, cfgVars, syncVars>>

\* The process is alive: run has not returned (main then calls os.Exit) and no
\* goroutine has panicked.
Running == mainpc \in {"walk", "wait"}

WalkerActive(w) == IF w = ROOT THEN mainpc = "walk" ELSE handler[w].pc = "walk"

\* waitGroup.Done() of a handler: the counter drops by one, and the process
\* panics when it drops below zero.
WgDone ==
    /\ wg' = wg - 1
    /\ mainpc' = IF wg - 1 < 0 THEN "panic" ELSE mainpc

Fault(kind) ==
    /\ nFaults < MaxFaults
    /\ nFaults' = nFaults + 1
    /\ failed' = failed \cup {kind}

\* A WalkDirectory call whose error ends run wherever it was called.
WalkReturnPropagating(w, err) ==
    /\ walk' = [walk EXCEPT ![w].st = "done", ![w].err = err]
    /\ IF w = ROOT
       THEN /\ mainpc' = IF err THEN "exit1" ELSE "wait"
            /\ UNCHANGED <<handler, wg>>
       ELSE /\ handler' = [handler EXCEPT ![w].pc = "done"]
            /\ wg' = wg - 1
            /\ mainpc' = IF err THEN "exit1" ELSE IF wg - 1 < 0 THEN "panic" ELSE mainpc

\* A WalkDirectory call returns err: to run, which goes on to the wait or
\* returns 1, or to the directory's handler, which drops err and returns in
\* turn.
WalkReturn(w, err) ==
    /\ walk' = [walk EXCEPT ![w].st = "done", ![w].err = err]
    /\ IF w = ROOT
       THEN /\ mainpc' = IF err THEN "exit1" ELSE "wait"
            /\ UNCHANGED <<handler, wg>>
       ELSE /\ handler' = [handler EXCEPT ![w].pc = "done"]
            /\ WgDone

\* os.OpenFile(dirName)
WalkOpen(w) ==
    /\ Running /\ WalkerActive(w)
    /\ walk[w].st = "open"
    /\ walk' = [walk EXCEPT ![w].st = "read", ![w].unread = Children(w), ![w].fd = "open"]
    /\ UNCHANGED <<mainpc, handler, wg, semCur, semWaiters, objects, launches, probes,
                   uploadCalls, puts, failed, nFaults, runStatic, notRun>>

\* WalkDirectory has returned and nothing refers to dir any more: the garbage
\* collector may run the finalizer of the os.File at any later time, which
\* closes the handle. WalkDirectory itself never calls dir.Close().
WalkFinalize(w) ==
    /\ Running
    /\ walk[w].st = "done"
    /\ walk[w].fd = "open"
    /\ walk' = [walk EXCEPT ![w].fd = "closed"]
    /\ UNCHANGED <<mainpc, handler, wg, semCur, semWaiters, objects, launches, probes,
                   uploadCalls, puts, failed, nFaults, runStatic, notRun>>

\* os.OpenFile(dirName) fails: WalkDirectory returns the error.
WalkOpenFail(w) ==
    /\ Running /\ WalkerActive(w)
    /\ walk[w].st = "open"
    /\ Fault("opendir")
    /\ WalkReturn(w, TRUE)
    /\ UNCHANGED <<semCur, semWaiters, objects, launches, probes, uploadCalls, puts,
                   runStatic, notRun>>

\* dir.Readdirnames(16) returns the next names; those the filter of the first
\* call rejects are passed over.
WalkReadNames(w) ==
    /\ Running /\ WalkerActive(w)
    /\ walk[w].st = "read"
    /\ walk[w].unread # {}
    /\ \E names \in SUBSET walk[w].unread :
        /\ \/ Cardinality(names) = ReadBatch
           \/ Cardinality(names) < ReadBatch /\ names = walk[w].unread
        /\ LET kept == {e \in names : w # ROOT \/ filter = <<>> \/ NameOf(e) = filter}
           IN  walk' = [walk EXCEPT ![w].unread = @ \ names,
                                    ![w].batch = kept,
                                    ![w].st = IF kept = {} THEN "read" ELSE "launch"]
    /\ UNCHANGED <<mainpc, handler, wg, semCur, semWaiters, objects, launches, probes,
                   uploadCalls, puts, failed, nFaults, runStatic, notRun>>

\* dir.Readdirnames(16) returns no name and io.EOF: WalkDirectory returns nil.
WalkReadEOF(w) ==
    /\ Running /\ WalkerActive(w)
    /\ walk[w].st = "read"
    /\ walk[w].unread = {}
    /\ WalkReturn(w, FALSE)
    /\ UNCHANGED <<semCur, semWaiters, objects, launches, probes, uploadCalls, puts,
                   failed, nFaults, runStatic, notRun>>

\* dir.Readdirnames(16) returns no name and an error: WalkDirectory returns it.
WalkReadFail(w) ==
    /\ Running /\ WalkerActive(w)
    /\ walk[w].st = "read"
    /\ Fault("readdir")
    /\ WalkReturn(w, TRUE)
    /\ UNCHANGED <<semCur, semWaiters, objects, launches, probes, uploadCalls, puts,
                   runStatic, notRun>>

\* go stc.HandleFile(relPath, dirName, name)
WalkLaunch(w) ==
    /\ Running /\ WalkerActive(w)
    /\ walk[w].st = "launch"
    /\ \E e \in walk[w].batch :
        /\ walk' = [walk EXCEPT ![w].batch = @ \ {e}, ![w].pending = e, ![w].st = "add"]
        /\ handler' = [handler EXCEPT ![e].pc = "start"]
        /\ launches' = Bump(launches, e)
    /\ UNCHANGED <<mainpc, wg, semCur, semWaiters, objects, probes, uploadCalls, puts,
                   failed, nFaults, runStatic, notRun>>

\* stc.waitGroup.Add(1)
WalkAdd(w) ==
    /\ Running /\ WalkerActive(w)
    /\ walk[w].st = "add"
    /\ wg' = wg + 1
    /\ walk' = [walk EXCEPT ![w].pending = "-",
                            ![w].st = IF walk[w].batch = {} THEN "read" ELSE "launch"]
    /\ UNCHANGED <<mainpc, handler, semCur, semWaiters, objects, launches, probes,
                   uploadCalls, puts, failed, nFaults, runStatic, notRun>>

\* The weight a handler waits for or holds at a point of HandleFile.
WeightOfPc(pc) == IF pc \in {"waitUpload", "upload"} THEN UploadWeight ELSE ProbeWeight

\* Where a handler stands once its acquisition is granted.
HeldPc(pc) ==
    IF pc = "waitProbe" THEN "probe" ELSE IF pc = "waitPut" THEN "put" ELSE "upload"

\* An admission test that looks at the queue alone.
SemFastQueueOnly(n) == semWaiters = <<>>

\* semaphore.Acquire's fast path: the weight fits and nobody is queued.
SemFast(n) == maxConcurrent - semCur >= n /\ semWaiters = <<>>

\* semaphore.Acquire by handler e: granted at once, never (a weight above the
\* size blocks until the context ends, and the context of run never ends), or
\* queued behind the waiters.
Acquire(e, n, heldPc, waitPc) ==
    /\ semCur' = IF SemFast(n) THEN semCur + n ELSE semCur
    /\ semWaiters' = IF ~SemFast(n) /\ n <= maxConcurrent THEN Append(semWaiters, e)
                     ELSE semWaiters
    /\ handler' = [handler EXCEPT ![e].pc = IF SemFast(n) THEN heldPc
                                             ELSE IF n > maxConcurrent THEN "stuck"
                                             ELSE waitPc]

\* semaphore.notifyWaiters: the waiters at the front are granted while their
\* weight fits.
RECURSIVE NotifyWaiters(_, _, _)
NotifyWaiters(cur, waiters, hh) ==
    IF waiters = <<>> THEN [cur |-> cur, waiters |-> waiters, handler |-> hh]
    ELSE LET e == Head(waiters)
             n == WeightOfPc(hh[e].pc)
         IN  IF maxConcurrent - cur < n
             THEN [cur |-> cur, waiters |-> waiters, handler |-> hh]
             ELSE NotifyWaiters(cur + n, Tail(waiters),
                                [hh EXCEPT ![e].pc = HeldPc(@)])

\* semaphore.Release(n)
Release(n, hh) == NotifyWaiters(semCur - n, semWaiters, hh)

\* A handler that probes every entry it can stat, whatever its type.
HStartNoSkip(e) ==
    /\ Running
    /\ handler[e].pc = "start"
    /\ Acquire(e, ProbeWeight, "probe", "waitProbe")
    /\ UNCHANGED <<wg, mainpc>>
    /\ UNCHANGED <<walk, objects, launches, probes, uploadCalls, puts, failed, nFaults,
                   runStatic, notRun>>

\* HandleFile from its start to the first acquisition: the stat, the skip of
\* an entry that is neither a file nor a directory, the key, sem.Acquire(1).
HStart(e) ==
    /\ Running
    /\ handler[e].pc = "start"
    /\ IF ~IsDir(StatOf(e).Mode) /\ ~IsRegular(StatOf(e).Mode)
       THEN /\ handler' = [handler EXCEPT ![e].pc = "done"]
            /\ WgDone
            /\ UNCHANGED <<semCur, semWaiters>>
       ELSE /\ Acquire(e, ProbeWeight, "probe", "waitProbe")
            /\ UNCHANGED <<wg, mainpc>>
    /\ UNCHANGED <<walk, objects, launches, probes, uploadCalls, puts, failed, nFaults,
                   runStatic, notRun>>

\* os.Stat fails: the handler returns.
HStatFail(e) ==
    /\ Running
    /\ handler[e].pc = "start"
    /\ Fault("stat")
    /\ handler' = [handler EXCEPT ![e].pc = "done"]
    /\ WgDone
    /\ UNCHANGED <<walk, semCur, semWaiters, objects, launches, probes, uploadCalls, puts,
                   runStatic, notRun>>

\* HandleFile from the upload decision d to the next acquisition or to its
\* return: called says whether UploadFile or UploadDir is called, next where
\* the handler stands afterwards.
HProbeMove(e, called, next) ==
    LET rel == Release(ProbeWeight, handler)
    IN  /\ semCur' = rel.cur
        /\ semWaiters' = rel.waiters
        /\ handler' = [rel.handler EXCEPT ![e].pc = next]
        /\ walk' = IF next = "walk" THEN [walk EXCEPT ![e].st = "open"] ELSE walk
        /\ probes' = Bump(probes, e)
        /\ uploadCalls' = IF called THEN Bump(uploadCalls, e) ELSE uploadCalls
        /\ IF next = "done" THEN WgDone ELSE UNCHANGED <<wg, mainpc>>

\* A handler that walks a directory without waiting for UploadDir.
HProbeDecidedWalkFirst(e, fault, d) ==
    /\ fault = "digest" => d.abort
    /\ fault = "open" => (~IsDir(StatOf(e).Mode) /\ ~d.abort /\ d.uploadRequired)
    /\ HProbeMove(e, ~d.abort /\ d.uploadRequired,
                  IF IsDir(StatOf(e).Mode) THEN "walk"
                  ELSE IF /\ ~d.abort
                          /\ d.uploadRequired
                          /\ UploadFilePrepare(StatOf(e), d.hashes, ContentOf(e),
                                               fault # "open").ok
                       THEN "needUpload"
                  ELSE "done")

\* HandleFile from the comparison's result d on: for a directory the marker is
\* put when an upload is required and the walk follows either way; for a file
\* UploadFile is called when an upload is required, and goes on to its
\* acquisition when it could open and hash the file.
HProbeDecided(e, fault, d) ==
    /\ fault = "digest" => d.abort
    /\ fault = "open" => (~IsDir(StatOf(e).Mode) /\ ~d.abort /\ d.uploadRequired)
    /\ HProbeMove(e, ~d.abort /\ d.uploadRequired,
                  IF IsDir(StatOf(e).Mode)
                  THEN (IF d.uploadRequired THEN "needPut" ELSE "walk")
                  ELSE IF /\ ~d.abort
                          /\ d.uploadRequired
                          /\ UploadFilePrepare(StatOf(e), d.hashes, ContentOf(e),
                                               fault # "open").ok
                       THEN "needUpload"
                  ELSE "done")

\* HandleFile from the return of HeadObject on: sem.Release(1), the
\* comparison, and for a file the upload decision and UploadFile up to its
\* acquisition. fault names the failure the environment produces in this step,
\* if any.
HProbeStep(e, fault) ==
    /\ Running
    /\ IF fault = "none" THEN UNCHANGED <<failed, nFaults>> ELSE Fault(fault)
    /\ HProbeDecided(e, fault,
                     HandleFileCompare(IF fault = "probe" THEN ProbeError
                                       ELSE IF KeyOf(e) \in DOMAIN objects
                                            THEN ProbeOk(objects[KeyOf(e)])
                                       ELSE ProbeNotFound,
                                       StatOf(e), ContentOf(e), fault # "digest"))
    /\ UNCHANGED <<objects, launches, puts, runStatic, notRun>>

\* HeadObject answers: the object's header, or NotFound.
HHeadObject(e) ==
    /\ handler[e].pc = "probe"
    /\ HProbeStep(e, "none")

\* HeadObject fails with an error other than NotFound.
HHeadObjectError(e) ==
    /\ handler[e].pc = "probe"
    /\ HProbeStep(e, "probe")

\* compareFileHashes cannot open or read the local file.
HDigestFail(e) ==
    /\ handler[e].pc = "probe"
    /\ HProbeStep(e, "digest")

\* UploadFile cannot open or read the local file.
HOpenFail(e) ==
    /\ handler[e].pc = "probe"
    /\ HProbeStep(e, "open")

\* UploadFile: sem.Acquire(5)
HAcquireUpload(e) ==
    /\ Running
    /\ handler[e].pc = "needUpload"
    /\ Acquire(e, UploadWeight, "upload", "waitUpload")
    /\ UNCHANGED <<mainpc, walk, wg, objects, launches, probes, uploadCalls, puts, failed,
                   nFaults, runStatic, notRun>>

\* UploadFile from the return of uploader.Upload: sem.Release(5), then the
\* handler returns.
HUploadStep(e, fails) ==
    /\ Running
    /\ IF fails THEN Fault("upload") ELSE UNCHANGED <<failed, nFaults>>
    /\ LET rel == Release(UploadWeight, handler)
           md == UploadFilePrepare(StatOf(e), NilHashes, ContentOf(e), TRUE).metadata
       IN  /\ semCur' = rel.cur
           /\ semWaiters' = rel.waiters
           /\ handler' = [rel.handler EXCEPT ![e].pc = "done"]
           /\ objects' = IF fails THEN objects
                         ELSE PutObject(objects, KeyOf(e), StoredObject(ContentOf(e).len, md))
    /\ puts' = Bump(puts, e)
    /\ WgDone
    /\ UNCHANGED <<walk, launches, probes, uploadCalls, runStatic, notRun>>

HUpload(e) ==
    /\ handler[e].pc = "upload"
    /\ HUploadStep(e, FALSE)

HUploadFail(e) ==
    /\ handler[e].pc = "upload"
    /\ HUploadStep(e, TRUE)

\* UploadDir: sem.Acquire(1)
HAcquirePut(e) ==
    /\ Running
    /\ handler[e].pc = "needPut"
    /\ Acquire(e, ProbeWeight, "put", "waitPut")
    /\ UNCHANGED <<mainpc, walk, wg, objects, launches, probes, uploadCalls, puts, failed,
                   nFaults, runStatic, notRun>>

\* An UploadDir that keeps its share of the limiter while HandleFile walks the
\* directory.
HPutStepHolding(e, fails) ==
    /\ Running
    /\ IF fails THEN Fault("upload") ELSE UNCHANGED <<failed, nFaults>>
    /\ handler' = [handler EXCEPT ![e].pc = "walk"]
    /\ objects' = IF fails THEN objects
                  ELSE PutObject(objects, KeyOf(e),
                                 StoredObject(0, UploadDirMetadata(StatOf(e))))
    /\ walk' = [walk EXCEPT ![e].st = "open"]
    /\ puts' = Bump(puts, e)
    /\ UNCHANGED <<mainpc, wg, semCur, semWaiters, launches, probes, uploadCalls, runStatic,
                   notRun>>

\* UploadDir from the return of PutObject: sem.Release(1), then HandleFile goes
\* on to WalkDirectory for the directory.
HPutStep(e, fails) ==
    /\ Running
    /\ IF fails THEN Fault("upload") ELSE UNCHANGED <<failed, nFaults>>
    /\ LET rel == Release(ProbeWeight, handler)
       IN  /\ semCur' = rel.cur
           /\ semWaiters' = rel.waiters
           /\ handler' = [rel.handler EXCEPT ![e].pc = "walk"]
           /\ objects' = IF fails THEN objects
                         ELSE PutObject(objects, KeyOf(e),
                                        StoredObject(0, UploadDirMetadata(StatOf(e))))
    /\ walk' = [walk EXCEPT ![e].st = "open"]
    /\ puts' = Bump(puts, e)
    /\ UNCHANGED <<mainpc, wg, launches, probes, uploadCalls, runStatic, notRun>>

HPut(e) ==
    /\ handler[e].pc = "put"
    /\ HPutStep(e, FALSE)

HPutFail(e) ==
    /\ handler[e].pc = "put"
    /\ HPutStep(e, TRUE)

\* stc.waitGroup.Wait() returns, and run returns 0.
MainWait ==
    /\ mainpc = "wait"
    /\ wg = 0
    /\ mainpc' = "exit0"
    /\ UNCHANGED <<walk, handler, wg, semCur, semWaiters, objects, launches, probes,
                   uploadCalls, puts, failed, nFaults, runStatic, notRun>>

Next ==
    \/ MainWait
    \/ \E w \in Walkers :
        \/ WalkOpen(w)
        \/ WalkOpenFail(w)
        \/ WalkReadNames(w)
        \/ WalkReadEOF(w)
        \/ WalkReadFail(w)
        \/ WalkLaunch(w)
        \/ WalkAdd(w)
        \/ WalkFinalize(w)
    \/ \E e \in Entries :
        \/ HStart(e)
        \/ HStatFail(e)
        \/ HHeadObject(e)
        \/ HHeadObjectError(e)
        \/ HDigestFail(e)
        \/ HOpenFail(e)
        \/ HAcquireUpload(e)
        \/ HUpload(e)
        \/ HUploadFail(e)
        \/ HAcquirePut(e)
        \/ HPut(e)
        \/ HPutFail(e)

Spec == RunInit /\ [][Next]_vars

\* Where a handler stands while its backend call (HeadObject, PutObject,
\* Upload) is in flight.
InFlightPcs == {"probe", "put", "upload"}

\* The steps a goroutine takes on its own, without waiting for the backend:
\* those of WalkDirectory, of HandleFile up to an acquisition, and the return
\* of waitGroup.Wait().
GoroutineSteps ==
    \/ MainWait
    \/ \E w \in Walkers :
        \/ WalkOpen(w) \/ WalkReadNames(w) \/ WalkReadEOF(w) \/ WalkLaunch(w) \/ WalkAdd(w)
    \/ \E e \in Entries : HStart(e) \/ HAcquireUpload(e) \/ HAcquirePut(e)

\* The run under the scheduling of the Go runtime, with a backend whose calls
\* return: a goroutine that can take a step takes one in the end, and no call
\* stays in flight for ever while the process lives.
SpecLive ==
    /\ RunInit
    /\ [][Next]_vars
    /\ WF_vars(GoroutineSteps)
    /\ \A e \in Entries : []<>(~Running \/ handler[e].pc \notin InFlightPcs)

\* ------------------------------------------------- the run, cancelled

\* The acquisitions a handler can be blocked in.
WaitPcs == {"waitProbe", "waitPut", "waitUpload", "stuck"}

\* The context handed to run is cancelled: ctx.Done() is closed.
Cancel ==
    /\ Running
    /\ ~cancelled
    /\ cancelled' = TRUE
    /\ blockedAt' = [e \in Entries |->
                        IF handler[e].pc = "stuck" THEN "waitUpload"
                        ELSE IF handler[e].pc \in WaitPcs THEN handler[e].pc
                        ELSE "-"]
    /\ UNCHANGED <<mainpc, walk, handler, wg, semCur, semWaiters, objects, launches, probes,
                   uploadCalls, puts, failed, nFaults, tree, filter, maxConcurrent, bucket0,
                   startVars, notRun>>

\* The waiters without e.
RECURSIVE RemoveWaiter(_, _)
RemoveWaiter(waiters, e) ==
    IF waiters = <<>> THEN <<>>
    ELSE IF Head(waiters) = e THEN Tail(waiters)
    ELSE <<Head(waiters)>> \o RemoveWaiter(Tail(waiters), e)

\* A failed acquisition that ends the handler wherever it occurs, in UploadDir
\* too.
HAcquireCancelledNoWalk(e) ==
    /\ Running
    /\ cancelled
    /\ handler[e].pc \in WaitPcs
    /\ LET front == semWaiters # <<>> /\ Head(semWaiters) = e
           rest == RemoveWaiter(semWaiters, e)
           hh == [handler EXCEPT ![e].pc = "done"]
           rel == IF front /\ maxConcurrent > semCur
                  THEN NotifyWaiters(semCur, rest, hh)
                  ELSE [cur |-> semCur, waiters |-> rest, handler |-> hh]
       IN  /\ semCur' = rel.cur
           /\ semWaiters' = rel.waiters
           /\ handler' = rel.handler
           /\ walk' = walk
           /\ WgDone
    /\ failed' = failed \cup {"acquire"}
    /\ UNCHANGED <<objects, launches, probes, uploadCalls, puts, nFaults, runStatic, notRun>>

\* semaphore.Acquire of handler e returns ctx.Err(): the waiter takes the
\* ctx.Done() case before it is granted, leaves the queue and, when it was at
\* the front and weight is free, has the waiters behind it notified. The
\* handler returns (HandleFile, UploadFile), or UploadDir returns and HandleFile
\* goes on to walk the directory.
HAcquireCancelled(e) ==
    /\ Running
    /\ cancelled
    /\ handler[e].pc \in WaitPcs
    /\ LET next == IF handler[e].pc = "waitPut" THEN "walk" ELSE "done"
           front == semWaiters # <<>> /\ Head(semWaiters) = e
           rest == RemoveWaiter(semWaiters, e)
           hh == [handler EXCEPT ![e].pc = next]
           rel == IF front /\ maxConcurrent > semCur
                  THEN NotifyWaiters(semCur, rest, hh)
                  ELSE [cur |-> semCur, waiters |-> rest, handler |-> hh]
       IN  /\ semCur' = rel.cur
           /\ semWaiters' = rel.waiters
           /\ handler' = rel.handler
           /\ walk' = IF next = "walk" THEN [walk EXCEPT ![e].st = "open"] ELSE walk
           /\ IF next = "done" THEN WgDone ELSE UNCHANGED <<wg, mainpc>>
    /\ failed' = failed \cup {"acquire"}
    /\ UNCHANGED <<objects, launches, probes, uploadCalls, puts, nFaults, runStatic, notRun>>

CancelNext ==
    \/ Next
    \/ Cancel
    \/ \E e \in Entries : HAcquireCancelled(e)

SpecCancel == RunInit /\ [][CancelNext]_vars

\* ------------------------------------------------- run, from its arguments

\* path.Split: the path up to and with its last separator, and the rest.
Split(p) ==
    LET seps == {i \in 1..Len(p) : p[i] = Sep}
        last == IF seps = {} THEN 0 ELSE CHOOSE i \in seps : \A j \in seps : j <= i
    IN  [dir |-> SubSeq(p, 1, last), file |-> SubSeq(p, last + 1, Len(p))]

\* firstFilter as run derives it from the source argument.
FirstFilterNoDot(source) == Split(source).file

FirstFilter(source) == IF Split(source).file = Dot THEN <<>> ELSE Split(source).file

\* stc.baseDir as run derives it from the source argument.
BaseDir(source) == IF Split(source).dir = <<>> THEN Dot ELSE Split(source).dir

StorageClasses ==
    {"STANDARD", "STANDARD_IA", "ONEZONE_IA", "INTELLIGENT_TIERING", "GLACIER",
     "DEEP_ARCHIVE", "OUTPOSTS"}

EncryptionAlgorithms == {"AES256", "aws:kms"}

\* The checks of -storage-class, -encryption-algorithm and -max-retries alone.
OptionErrorNoDelay(a) ==
    IF a.storageClass \notin StorageClasses THEN "storage-class"
    ELSE IF a.encAlg \notin EncryptionAlgorithms THEN "encryption-algorithm"
    ELSE IF a.maxRetries < 0 THEN "max-retries"
    ELSE "none"

\* The option run rejects first, "none" when it accepts them all.
OptionError(a) ==
    IF a.storageClass \notin StorageClasses THEN "storage-class"
    ELSE IF a.encAlg \notin EncryptionAlgorithms THEN "encryption-algorithm"
    ELSE IF a.maxRetries < 0 THEN "max-retries"
    ELSE IF /\ a.maxRetries > 0
            /\ (ParseDuration(a.maxBackoffDelay).err \/ ParseDuration(a.maxBackoffDelay).val <= 0)
         THEN "max-backoff-delay"
    ELSE "none"

\* The command lines of the model. flagsOk: flagSet.Parse accepts the options;
\* positional: the number of positional arguments, the first being source and
\* the second dest.
Sources == {Dot, NameOf("d"), NameOf("d") \o <<Sep>>, NameOf("d") \o <<Sep>> \o Dot}
Dests == {RunDest, <<"b", Sep, "p">>}
MaxPositional == 3
AllArgs ==
    [flagsOk : BOOLEAN, help : BOOLEAN, positional : 0..MaxPositional,
     source : Sources, dest : Dests,
     storageClass : {"STANDARD", "CHEAP"},
     encAlg : {"AES256", "DES"},
     maxRetries : {-1, 0, 1},
     maxBackoffDelay : {<<"1", "s">>, <<"0", "s">>, <<"x">>},
     rootSquash : BOOLEAN,
     ignoreTimestamps : {FALSE},
     maxConcurrent : {1, 6}]

\* A well-formed command line, and the command lines that depart from it in
\* at most MaxDeviations respects.
DefaultArgs ==
    [flagsOk |-> TRUE, help |-> FALSE, positional |-> 2, source |-> NameOf("d"),
     dest |-> RunDest, storageClass |-> "STANDARD", encAlg |-> "AES256", maxRetries |-> 1,
     maxBackoffDelay |-> <<"1", "s">>, rootSquash |-> FALSE, ignoreTimestamps |-> FALSE,
     maxConcurrent |-> 6]
MaxDeviations == 2
Deviations(a) == Cardinality({f \in DOMAIN a : a[f] # DefaultArgs[f]})
ArgSets == {a \in AllArgs : Deviations(a) <= MaxDeviations}

\* What the base directory holds when run is followed from its arguments:
\* nothing, the file f, or the directory d with its file g beside the file f.
MainTreeShapes == {{}, {"f"}, {"d", "f", "g"}}

runDyn == <<walk, handler, wg, semCur, semWaiters, objects, launches, probes, uploadCalls, puts,
            failed, nFaults>>

StartInit ==
    /\ KeyIdle
    /\ SyncIdle
    /\ rootUID = 0
    /\ rootGID = 0
    /\ ignoreTimestamps = FALSE
    /\ args \in ArgSets
    /\ startpc = "flags"
    /\ baseDir = <<>>
    /\ cause = "-"
    /\ locCalls = 0
    /\ cancelled = FALSE
    /\ blockedAt = [e \in Entries |-> "-"]
    /\ tree = {}
    /\ filter = <<>>
    /\ maxConcurrent = 0
    /\ bucket0 = "empty"
    /\ objects = <<>>
    /\ mainpc = "start"
    /\ walk = [w \in Walkers |-> IdleWalk]
    /\ handler = [e \in Entries |-> [pc |-> "idle"]]
    /\ wg = 0
    /\ semCur = 0
    /\ semWaiters = <<>>
    /\ launches = [e \in Entries |-> 0]
    /\ probes = [e \in Entries |-> 0]
    /\ uploadCalls = [e \in Entries |-> 0]
    /\ puts = [e \in Entries |-> 0]
    /\ failed = {}
    /\ nFaults = 0

\* run returns code before the walk, for the reason why.
StartReturn(code, why) ==
    /\ mainpc' = code
    /\ cause' = why
    /\ startpc' = "returned"

StartGoOn(next) ==
    /\ startpc' = next
    /\ UNCHANGED <<mainpc, cause>>

\* flagSet.Parse and -help
StartParse ==
    /\ mainpc = "start"
    /\ startpc = "flags"
    /\ IF ~args.flagsOk THEN StartReturn("exit1", "flags")
       ELSE IF args.help THEN StartReturn("exit0", "help")
       ELSE StartGoOn("positional")
    /\ UNCHANGED <<args, baseDir, locCalls, cancelVars, tree, filter, maxConcurrent, bucket0,
                   runDyn, notRun>>

\* The positional arguments: their number, path.Split of the source,
\* SetBucketAndPrefix of the destination.
StartPositional ==
    /\ mainpc = "start"
    /\ startpc = "positional"
    /\ IF args.positional # 2
       THEN /\ StartReturn("exit2", "positional")
            /\ UNCHANGED <<baseDir, filter, dest, bucket, prefix>>
       ELSE /\ baseDir' = BaseDir(args.source)
            /\ filter' = FirstFilter(args.source)
            /\ dest' = args.dest
            /\ IF SetBucketAndPrefix(args.dest).err
               THEN /\ StartReturn("exit2", "destination")
                    /\ UNCHANGED <<bucket, prefix>>
               ELSE /\ bucket' = SetBucketAndPrefix(args.dest).bucket
                    /\ prefix' = SetBucketAndPrefix(args.dest).prefix
                    /\ StartGoOn("options")
    /\ UNCHANGED <<args, locCalls, cancelVars, tree, maxConcurrent, bucket0, runDyn,
                   kpc, kRelPath, kTrail, kName, kIsDir, kKey, cfgVars, syncVars>>

\* -storage-class, -encryption-algorithm, -ignore-timestamps, -max-retries,
\* -max-backoff-delay
StartOptions ==
    /\ mainpc = "start"
    /\ startpc = "options"
    /\ IF OptionError(args) # "none"
       THEN /\ StartReturn("exit1", OptionError(args))
            /\ ignoreTimestamps' = IF OptionError(args) \in {"storage-class", "encryption-algorithm"}
                                   THEN ignoreTimestamps ELSE args.ignoreTimestamps
       ELSE /\ StartGoOn("squash")
            /\ ignoreTimestamps' = args.ignoreTimestamps
    /\ UNCHANGED <<args, baseDir, locCalls, cancelVars, tree, filter, maxConcurrent, bucket0,
                   runDyn, keyVars, rootUID, rootGID, syncVars>>

\* -root-squash: SetRootFromNFSNobody looks the user nfsnobody up.
StartRootSquash ==
    /\ mainpc = "start"
    /\ startpc = "squash"
    /\ \E found \in BOOLEAN :
        IF args.rootSquash /\ ~found
        THEN /\ StartReturn("exit1", "nfsnobody")
             /\ UNCHANGED <<rootUID, rootGID>>
        ELSE /\ StartGoOn("client")
             /\ rootUID' = IF args.rootSquash THEN NobodyUID ELSE rootUID
             /\ rootGID' = IF args.rootSquash THEN NobodyGID ELSE rootGID
    /\ UNCHANGED <<args, baseDir, locCalls, cancelVars, tree, filter, maxConcurrent, bucket0,
                   runDyn, keyVars, ignoreTimestamps, syncVars>>

\* The client: the one handed to run, or the one made from the default
\* configuration and, with -check-bucket, from the bucket's location.
StartClient ==
    /\ mainpc = "start"
    /\ startpc = "client"
    /\ \E how \in {"injected", "config fails", "unchecked", "located", "location fails",
                    "reconfiguration fails"} :
        /\ locCalls' = IF how \in {"located", "location fails", "reconfiguration fails"}
                       THEN locCalls + 1 ELSE locCalls
        /\ IF how = "config fails" THEN StartReturn("exit1", "aws-config")
           ELSE IF how = "location fails" THEN StartReturn("exit1", "bucket-location")
           ELSE IF how = "reconfiguration fails" THEN StartReturn("panic", "aws-config")
           ELSE StartGoOn("basedir")
    /\ UNCHANGED <<args, baseDir, cancelVars, tree, filter, maxConcurrent, bucket0, runDyn,
                   notRun>>

\* os.OpenFile(stc.baseDir)
StartOpenBase ==
    /\ mainpc = "start"
    /\ startpc = "basedir"
    /\ \E opened \in BOOLEAN :
        IF opened THEN StartGoOn("limiter") ELSE StartReturn("exit1", "basedir")
    /\ UNCHANGED <<args, baseDir, locCalls, cancelVars, tree, filter, maxConcurrent, bucket0,
                   runDyn, notRun>>

\* The limiter and the counter are made and the first WalkDirectory is called,
\* on the tree the base directory holds and the bucket as it is.
StartWalk ==
    /\ mainpc = "start"
    /\ startpc = "limiter"
    /\ maxConcurrent' = args.maxConcurrent
    /\ tree' \in MainTreeShapes
    /\ bucket0' \in {"empty", "synced"}
    /\ objects' = IF bucket0' = "empty" THEN <<>>
                  ELSE SyncedBucket(tree', prefix, rootUID, rootGID)
    /\ walk' = [walk EXCEPT ![ROOT].st = "open"]
    /\ mainpc' = "walk"
    /\ startpc' = "walk"
    /\ UNCHANGED <<args, baseDir, cause, locCalls, cancelVars, filter, handler, wg, semCur,
                   semWaiters, launches, probes, uploadCalls, puts, failed, nFaults, notRun>>

StartNext ==
    \/ StartParse
    \/ StartPositional
    \/ StartOptions
    \/ StartRootSquash
    \/ StartClient
    \/ StartOpenBase
    \/ StartWalk
    \/ Next

SpecMain == StartInit /\ [][StartNext]_vars

\* ------------------------------------------------- per-entry properties

\* The id recorded for a local id: the substitute for 0, the id otherwise.
Squashed(id, substitute) == IF id = 0 THEN substitute ELSE id

\* The lowercase hex digest of the entry's content under one algorithm.
LocalDigest(alg) ==
    LET h == getFileHashes(sContent)
    IN  HexEncode(IF alg = "sha512" THEN h.SHA512 ELSE IF alg = "sha256" THEN h.SHA256
                  ELSE IF alg = "sha1" THEN h.SHA1 ELSE h.MD5)

DigestOrder == <<"sha512", "sha256", "sha1", "md5">>

\* The strongest digest algorithm the header carries, "" when it carries none.
SelectedAlg(hoo) ==
    IF \E i \in 1..4 : MetaGet(hoo.Metadata, DigestOrder[i]) # <<>>
    THEN DigestOrder[CHOOSE i \in 1..4 :
            /\ MetaGet(hoo.Metadata, DigestOrder[i]) # <<>>
            /\ \A j \in 1..(i - 1) : MetaGet(hoo.Metadata, DigestOrder[j]) = <<>>]
    ELSE ""

OwnerRule(hoo, key, id) ==
    /\ key \in DOMAIN hoo.Metadata
    /\ ~ParseUint(hoo.Metadata[key], 10, 32).err
    /\ ParseUint(hoo.Metadata[key], 10, 32).val = id

TimeRule(hoo, key, t) ==
    /\ key \in DOMAIN hoo.Metadata
    /\ ~ParseDuration(hoo.Metadata[key]).err
    /\ ParseDuration(hoo.Metadata[key]).val = t

\* The five comparator rules, for the header the last handler run probed.
SizeRule(hoo) == IsDir(sStat.Mode) \/ hoo.ContentLength = sStat.Size
OwnershipRule(hoo) ==
    /\ OwnerRule(hoo, "file-owner", Squashed(sStat.Uid, rootUID))
    /\ OwnerRule(hoo, "file-group", Squashed(sStat.Gid, rootGID))
PermissionsRule(hoo) ==
    /\ "file-permissions" \in DOMAIN hoo.Metadata
    /\ ~ParseUint(hoo.Metadata["file-permissions"], 8, 16).err
    /\ ParseUint(hoo.Metadata["file-permissions"], 8, 16).val = sStat.Mode % PermMask
TimestampsRule(hoo) ==
    \/ ignoreTimestamps
    \/ /\ TimeRule(hoo, "file-ctime", sStat.Ctim.Sec * NsPerSec + sStat.Ctim.Nsec)
       /\ TimeRule(hoo, "file-mtime", sStat.Mtim.Sec * NsPerSec + sStat.Mtim.Nsec)
DigestRule(hoo) ==
    \/ IsDir(sStat.Mode)
    \/ SelectedAlg(hoo) = ""
    \/ MetaGet(hoo.Metadata, SelectedAlg(hoo)) = LocalDigest(SelectedAlg(hoo))

AllFiveRules(hoo) ==
    SizeRule(hoo) /\ OwnershipRule(hoo) /\ PermissionsRule(hoo) /\ TimestampsRule(hoo)
    /\ DigestRule(hoo)

Handled == sRuns > 0 /\ sLast.probe # "none"

\* C4: what UploadFile / UploadDir store for a stat and content satisfies
\* FileMetadataEqual and compareFileHashes for that stat and content, so the
\* handler run that follows a successful upload of the unchanged entry, and
\* probes the object, issues no upload call.
C4_Idempotent ==
    /\ (Handled /\ sLast.stored) =>
          /\ sRemote.present
          /\ FileMetadataEqual(sRemote.obj, sStat, IsDir(sStat.Mode))
          /\ IsDir(sStat.Mode) \/ compareFileHashes(sRemote.obj, sContent, TRUE).equal
          /\ IsRegular(sStat.Mode) => sRemote.obj.ContentLength = sStat.Size
    /\ (Handled /\ sLast.prevStored /\ sLast.probe = "ok") => sLast.uploadCalls = 0

\* C4 witness: the handler ran again after a successful upload of a file owned
\* by root under root-squash with timestamps compared, and found it in sync.
C4_Witness ==
    /\ Handled
    /\ sLast.prevStored
    /\ sLast.probe = "ok"
    /\ sLast.digest = "equal"
    /\ sLast.uploadCalls = 0
    /\ IsRegular(sStat.Mode)
    /\ sStat.Uid = 0
    /\ rootUID # 0
    /\ ~ignoreTimestamps

\* C5: an entry whose remote object exists and satisfies all five comparator
\* rules gets no upload call.
C5_InSyncNoUpload ==
    (Handled /\ sLast.probe = "ok" /\ AllFiveRules(sLast.hoo)) => sLast.uploadCalls = 0

\* C5 witness: a root-owned file under root-squash whose remote object passes
\* the five rules, the digest rule by an actual comparison.
C5_Witness ==
    /\ Handled
    /\ sLast.probe = "ok"
    /\ AllFiveRules(sLast.hoo)
    /\ IsRegular(sStat.Mode)
    /\ SelectedAlg(sLast.hoo) = "sha512"
    /\ sStat.Uid = 0
    /\ rootUID # 0
    /\ ~sLast.prevStored
    /\ sLast.uploadCalls = 0

\* C6: for a regular file whose remote object exists and whose digest pass
\* succeeded, a selected remote digest that differs from the local one makes
\* the handler call the uploader, whatever the other four rules say.
C6_DigestMismatchUploads ==
    (/\ Handled
     /\ sLast.probe = "ok"
     /\ IsRegular(sStat.Mode)
     /\ sLast.digest # "error"
     /\ ~DigestRule(sLast.hoo))
    => sLast.uploadRequired /\ sLast.uploadCalls = 1

\* C6 witness: the remote metadata carries md5 alone, it does not match, and
\* size, owner, group, permissions and timestamps all match.
C6_Witness ==
    /\ Handled
    /\ sLast.probe = "ok"
    /\ IsRegular(sStat.Mode)
    /\ SelectedAlg(sLast.hoo) = "md5"
    /\ ~DigestRule(sLast.hoo)
    /\ SizeRule(sLast.hoo) /\ OwnershipRule(sLast.hoo) /\ PermissionsRule(sLast.hoo)
    /\ TimestampsRule(sLast.hoo) /\ ~ignoreTimestamps
    /\ sLast.uploadCalls = 1

\* C10: the comparison and both upload paths substitute the configured id for
\* a local uid of 0 and for a local gid of 0, each on its own, and leave other
\* ids alone; under root-squash a root-owned entry is never stored with id 0.
C10_RootSquash ==
    /\ (Handled /\ sLast.stored) =>
          /\ sRemote.obj.Metadata["file-owner"] = FormatBase(Squashed(sStat.Uid, rootUID), 10)
          /\ sRemote.obj.Metadata["file-group"] = FormatBase(Squashed(sStat.Gid, rootGID), 10)
          /\ (rootUID # 0 /\ sStat.Uid = 0) => sRemote.obj.Metadata["file-owner"] # <<"0">>
          /\ (rootGID # 0 /\ sStat.Gid = 0) => sRemote.obj.Metadata["file-group"] # <<"0">>
    /\ (Handled /\ sLast.probe = "ok" /\ sLast.metaEq) =>
          /\ OwnerRule(sLast.hoo, "file-owner", Squashed(sStat.Uid, rootUID))
          /\ OwnerRule(sLast.hoo, "file-group", Squashed(sStat.Gid, rootGID))

\* C10 witness: under root-squash a directory with uid 7 and gid 0 gets its
\* marker stored.
C10_Witness ==
    /\ Handled
    /\ sLast.stored
    /\ IsDir(sStat.Mode)
    /\ rootUID # 0
    /\ sStat.Uid = 7
    /\ sStat.Gid = 0
    /\ sRemote.obj.Metadata["file-group"] = FormatBase(NobodyGID, 10)

\* ------------------------------------------------------------ key properties

EndsWithSep(s) == s # <<>> /\ s[Len(s)] = Sep

\* The names of kTrail, each followed by a separator.
RECURSIVE TrailPath(_)
TrailPath(names) ==
    IF names = <<>> THEN <<>> ELSE Head(names) \o <<Sep>> \o TrailPath(Tail(names))

\* The prefix, the relative path and the leaf name written one after the other.
LiteralKey == prefix \o TrailPath(kTrail) \o kName \o (IF kIsDir THEN <<Sep>> ELSE <<>>)

\* A prefix in cleaned form: no empty or "." element, and ".." elements only
\* at the start of a prefix without a leading separator.
PrefixIsClean(p) ==
    LET segs == Segments(p)
        last == Len(segs) - 1
    IN  \/ p = <<>>
        \/ /\ \A i \in 2..last : segs[i] # <<>>
           /\ \A i \in 1..last : segs[i] # Dot
           /\ \A i \in 1..last :
                segs[i] = DotDot => \A j \in 1..i : segs[j] = DotDot

\* C8: every key HandleFile builds has no doubled separator, and ends with a
\* separator exactly when the entry is a directory, whatever the destination
\* prefix, the relative path and the leaf name.
C8_KeyWellFormed ==
    kpc = "handled" => /\ ~ContainsDoubleSep(kKey)
                       /\ (kIsDir <=> EndsWithSep(kKey))

\* C8 witness: a directory below the top level is handled under a prefix that
\* itself holds a doubled separator.
C8_Witness ==
    /\ kpc = "handled"
    /\ kIsDir
    /\ kTrail # <<>>
    /\ ContainsDoubleSep(prefix)

\* C9 as stated: every key is the normalised prefix followed literally by the
\* relative path and the leaf name, for every accepted prefix.
C9_KeyIsLiteral == kpc = "handled" => kKey = LiteralKey

\* C9 amended: the key is the prefix followed literally by the relative path
\* and the leaf name whenever the prefix is in cleaned form (a leading
\* separator included).
C9_CleanPrefixIsLiteral ==
    (kpc = "handled" /\ PrefixIsClean(prefix)) => kKey = LiteralKey

\* C9 witness: a nested entry is handled under a cleaned prefix that starts
\* with a separator.
C9_Witness ==
    /\ kpc = "handled"
    /\ kTrail # <<>>
    /\ PrefixIsClean(prefix)
    /\ prefix # <<>>
    /\ prefix[1] = Sep
    /\ kKey = LiteralKey

\* ------------------------------------------------- properties of the run

\* The top-level entry an entry lies under.
RECURSIVE TopOf(_)
TopOf(e) == IF ParentOf(e) = ROOT THEN e ELSE TopOf(ParentOf(e))

\* The entries beneath the source: all of the tree, or the subtree the source
\* argument names.
Selected == {e \in tree : filter = <<>> \/ NameOf(TopOf(e)) = filter}

\* The regular files and directories beneath the source.
Mirrored == {e \in Selected : IsDir(StatOf(e).Mode) \/ IsRegular(StatOf(e).Mode)}

\* Every dispatch is over and every dispatched handler has returned.
AllFinished ==
    /\ \A w \in Walkers : walk[w].st \in {"off", "done"}
    /\ walk[ROOT].st = "done"
    /\ \A e \in Entries : handler[e].pc \in {"idle", "done"}

\* C1: run returns 0 only when every dispatched handler has finished: the wait
\* on the pending-work counter never completes while a handler is running or is
\* launched and not yet registered.
C1_ExitOnlyWhenAllFinished ==
    mainpc = "exit0" =>
        /\ \A e \in Entries : handler[e].pc \in {"idle", "done"}
        /\ \A w \in Walkers : walk[w].st # "add"

\* The bucket holds one object per regular file beneath the source, of the
\* file's size, one per directory beneath the source, of size 0 under a key
\* that ends with the separator, and nothing else.
BucketMirrorsTree ==
    /\ DOMAIN objects = {KeyOf(e) : e \in Mirrored}
    /\ \A e1, e2 \in Mirrored : KeyOf(e1) = KeyOf(e2) => e1 = e2
    /\ \A e \in Mirrored :
        /\ KeyOf(e) \in DOMAIN objects
        /\ IF IsDir(StatOf(e).Mode)
           THEN /\ objects[KeyOf(e)].ContentLength = 0
                /\ KeyOf(e)[Len(KeyOf(e))] = Sep
           ELSE /\ objects[KeyOf(e)].ContentLength = StatOf(e).Size
                /\ KeyOf(e)[Len(KeyOf(e))] # Sep

\* An empty source directory gives no object and, once run has returned, the
\* exit code 0.
EmptySourceExitsZero ==
    tree = {} => /\ objects = <<>>
                 /\ ~Running => mainpc = "exit0"

\* C2 as stated: on an empty bucket, when every stat, directory read and
\* backend call succeeds, the bucket mirrors the tree once every dispatched
\* handler has finished; an empty source gives no object and exit code 0.
C2_MirrorWhenBackendSucceeds ==
    (bucket0 = "empty" /\ failed \cap {"stat", "opendir", "readdir", "probe", "upload"} = {}) =>
        /\ AllFinished => BucketMirrorsTree
        /\ EmptySourceExitsZero

\* C2, amended: the same when, besides, every local file is opened and read
\* without failure.
C2_MirrorWhenNothingFails ==
    (bucket0 = "empty" /\ failed = {}) =>
        /\ AllFinished => BucketMirrorsTree
        /\ EmptySourceExitsZero

\* A run without failure over the full tree has ended with exit code 0 and the
\* three objects stored.
C2_Witness ==
    /\ bucket0 = "empty"
    /\ failed = {}
    /\ AllFinished
    /\ mainpc = "exit0"
    /\ tree = Entries
    /\ filter = <<>>
    /\ Cardinality(DOMAIN objects) = 3

\* C3: in a run that met no failure and returned 0, every regular file or
\* directory beneath the source was handled by exactly one handler, which
\* issued exactly one probe and at most one upload call, and exactly one upload
\* call when the probe reported that the object does not exist (as every probe
\* of an empty bucket does).
C3_HandledExactlyOnce ==
    (mainpc = "exit0" /\ failed = {}) =>
        \A e \in Mirrored :
            /\ launches[e] = 1
            /\ probes[e] = 1
            /\ uploadCalls[e] <= 1
            /\ bucket0 = "empty" => uploadCalls[e] = 1

\* The limiter weight the handlers with a backend call in flight hold: 1 for a
\* probe or a marker put, 5 for a file upload.
RECURSIVE HeldWeight(_)
HeldWeight(es) ==
    IF es = {} THEN 0
    ELSE LET e == CHOOSE x \in es : TRUE
         IN  (IF handler[e].pc \in {"probe", "put", "upload"}
              THEN WeightOfPc(handler[e].pc) ELSE 0)
             + HeldWeight(es \ {e})

\* C7: the weight held by the handlers is at most -max-concurrent, and the
\* backend calls in flight are exactly those the limiter has admitted: their
\* weights add up to the weight the limiter has handed out.
C7_LimiterBound ==
    /\ HeldWeight(Entries) <= maxConcurrent
    /\ HeldWeight(Entries) = semCur
    /\ semCur >= 0

\* The limiter is full: a file upload and a probe are in flight together.
C7_Witness ==
    /\ semCur = maxConcurrent
    /\ \E e \in Entries : handler[e].pc = "upload"
    /\ \E e \in Entries : handler[e].pc = "probe"

\* C20: the pending-work counter never drops below zero: each handler is
\* counted by waitGroup.Add(1) before its own deferred Done() decrements the
\* counter, in every interleaving of the launch and the registration.
C20_CounterNeverNegative == wg >= 0

\* C14: a probe failure is taken as must-upload: when HeadObject fails, with
\* NotFound or with any other error, the handler calls the upload of the entry
\* exactly once, without calling the metadata comparator or the digest check,
\* and the probe's error is written to the error stream exactly when it is not
\* NotFound.
C14_ProbeFailureUploads ==
    /\ (Handled /\ sLast.probe \in {"notfound", "error"}) =>
          /\ sLast.uploadRequired
          /\ sLast.uploadCalls = 1
          /\ ~sLast.compared
          /\ sLast.digest = "none"
          /\ sLast.hashPasses <= 1
    /\ Handled => ("HeadObject failed" \in sLast.stderr <=> sLast.probe = "error")

\* The object stored by the run before was probed with an error other than
\* NotFound, and uploaded again.
C14_Witness ==
    /\ Handled
    /\ sLast.prevStored
    /\ sLast.probe = "error"
    /\ "HeadObject failed" \in sLast.stderr
    /\ sLast.uploadCalls = 1
    /\ sLast.stored

\* C15: fail-open holds on every path of the handler: when the probe returned
\* an object and the handler cannot establish that it is in sync (the metadata
\* comparison fails, or the local file cannot be opened or hashed in the digest
\* check), the handler calls the upload of the entry.
C15_FailOpenOnEveryPath ==
    (Handled /\ sLast.probe = "ok" /\ (~sLast.metaEq \/ sLast.digest = "error")) =>
        sLast.uploadCalls = 1

\* C12: a failure to open or read a directory aborts only the dispatch of the
\* entries beneath that directory: when the run ends after such a failure, in
\* the top-level directory too, every handler that was dispatched has run to
\* completion.
C12_DirFailureAbortsOnlySubtree ==
    (mainpc \in {"exit0", "exit1"} /\ \E w \in Walkers : walk[w].err) =>
        \A e \in Entries : launches[e] > 0 => handler[e].pc = "done"

\* C19 (its safety part): once the context of run is cancelled, a handler that
\* was blocked in a limiter acquisition then never holds that acquisition, so
\* it never issues the backend call the acquisition was for.
C19_BlockedAcquisitionsFail ==
    \A e \in Entries : blockedAt[e] # "-" => handler[e].pc # HeldPc(blockedAt[e])

\* The first WalkDirectory call has returned nil to run.
InitialWalkSucceeded == walk[ROOT].st = "done" /\ ~walk[ROOT].err

\* A step in which the handler of e meets a failure of its own: the stat, the
\* probe, the digest pass, the open of the file, the upload, the marker put, a
\* limiter acquisition, or the open or read of its directory.
PerEntryFailureStep(e) ==
    \/ HStatFail(e)
    \/ HHeadObjectError(e)
    \/ HDigestFail(e)
    \/ HOpenFail(e)
    \/ HUploadFail(e)
    \/ HPutFail(e)
    \/ HAcquireCancelled(e)
    \/ e \in Walkers /\ (WalkOpenFail(e) \/ WalkReadFail(e))

\* The step leaves every handler but e's where it stood, or admits it to the
\* limiter it was waiting for.
SiblingsGoOn(e) ==
    \A e2 \in Entries \ {e} :
        \/ handler'[e2] = handler[e2]
        \/ /\ handler[e2].pc \in WaitPcs
           /\ handler'[e2].pc = HeldPc(handler[e2].pc)

NothingDispatched ==
    \A e \in Entries :
        launches[e] = 0 /\ probes[e] = 0 /\ uploadCalls[e] = 0 /\ puts[e] = 0

\* The command line is malformed: the flag parser rejects an option, the
\* positional arguments are not two, or the destination is no s3:// URL.
Malformed(a) ==
    \/ ~a.flagsOk
    \/ a.positional # 2
    \/ SetBucketAndPrefix(a.dest).err

\* C16: a run whose arguments are malformed returns exit code 2, and neither
\* dispatches a handler nor issues a backend call.
C16_MalformedArgumentsExitTwo ==
    Malformed(args) =>
        /\ mainpc \in {"start", "exit2"}
        /\ NothingDispatched
        /\ locCalls = 0

\* The options hold a configuration error: an invalid -storage-class or
\* -encryption-algorithm, a negative -max-retries, or, with retries enabled, a
\* -max-backoff-delay that does not parse or is not positive.
InvalidOptions(a) ==
    \/ a.storageClass \notin StorageClasses
    \/ a.encAlg \notin EncryptionAlgorithms
    \/ a.maxRetries < 0
    \/ /\ a.maxRetries > 0
       /\ \/ ParseDuration(a.maxBackoffDelay).err
          \/ ParseDuration(a.maxBackoffDelay).val <= 0

\* run has not gone past the checks of the options.
NotPastOptions == startpc \in {"flags", "positional", "options", "returned"}

\* A failed nfsnobody lookup or an unopenable base directory makes run return
\* 1 with nothing dispatched.
EnvironmentErrorExitsOne ==
    cause \in {"nfsnobody", "basedir"} => (mainpc = "exit1" /\ NothingDispatched)

\* C17 as stated: every configuration error makes run return 1 before any
\* handler is dispatched and before any probe or upload call is issued.
C17_ConfigErrorExitsOne ==
    /\ InvalidOptions(args) =>
          (mainpc \in {"start", "exit1"} /\ NotPastOptions /\ NothingDispatched)
    /\ EnvironmentErrorExitsOne

\* C17, amended: the same for a command line that is well-formed and does not
\* ask for the usage text.
C17_ConfigErrorExitsOneWhenWellFormed ==
    /\ (InvalidOptions(args) /\ ~Malformed(args) /\ ~args.help) =>
          (mainpc \in {"start", "exit1"} /\ NotPastOptions /\ NothingDispatched)
    /\ EnvironmentErrorExitsOne

\* run has returned 1 for a -max-backoff-delay of zero with retries enabled.
C17_Witness ==
    /\ mainpc = "exit1"
    /\ cause = "max-backoff-delay"
    /\ args.maxRetries > 0
    /\ args.maxBackoffDelay = <<"0", "s">>
    /\ NothingDispatched

\* The entries of the base directory that bear the name the source argument
\* ends with.
NamedRoots == {e \in tree : ParentOf(e) = ROOT /\ NameOf(e) = filter}

\* The source ends with a separator or with ".", and the directory it names
\* could not be opened, by run or by the first WalkDirectory.
BaseRootUnavailable ==
    /\ filter = <<>>
    /\ \/ cause = "basedir"
       \/ walk[ROOT].err /\ "opendir" \in failed

\* The source ends with a name that its parent directory does not hold.
NamedRootMissing == startpc = "walk" /\ filter # <<>> /\ NamedRoots = {}

\* The source ends with the name of a directory that could not be opened.
NamedRootUnopenable ==
    /\ filter # <<>>
    /\ \E e \in NamedRoots \cap Walkers : walk[e].err /\ "opendir" \in failed

\* C18: when the source root named on the command line does not exist or
\* cannot be opened, run never returns 0, whether the source is given with or
\* without a trailing separator.
C18_MissingSourceRootIsFatal ==
    (BaseRootUnavailable \/ NamedRootMissing \/ NamedRootUnopenable) => mainpc # "exit0"

\* The last element of the source argument: what follows its last separator.
LastElement(source) == Split(source).file

\* The keys the run has produced: those of the dispatched handlers that build a
\* key, and those stored in a bucket that was empty at the start.
RunKeys ==
    {KeyOf(e) : e \in {x \in Entries : /\ launches[x] > 0
                                       /\ \/ IsDir(StatOf(x).Mode)
                                          \/ IsRegular(StatOf(x).Mode)}}
    \cup (IF bucket0 = "empty" THEN DOMAIN objects ELSE {})

\* Only the child of the base directory that bears the source's last element
\* is dispatched by the first WalkDirectory call, every key of the run lies
\* under that child's key, and a nested WalkDirectory call that has returned
\* nil has dispatched every child of its directory, whatever its name.
SingleNamedChild ==
    /\ \A e \in Entries :
          (ParentOf(e) = ROOT /\ launches[e] > 0) => NameOf(e) = LastElement(args.source)
    /\ \A k \in RunKeys : HasPrefix(k, prefix \o LastElement(args.source))
    /\ \A w \in Walkers \ {ROOT} :
          (walk[w].st = "done" /\ ~walk[w].err) => \A c \in Children(w) : launches[c] > 0

\* The first WalkDirectory call, once it has returned nil, has dispatched every
\* child of the base directory, and every key of the run is the key of an entry
\* beneath the source: none stands for the source directory itself.
EveryChild ==
    /\ InitialWalkSucceeded => \A e \in tree : ParentOf(e) = ROOT => launches[e] > 0
    /\ \A k \in RunKeys : k # prefix /\ \E e \in tree : k = KeyOf(e)

\* C11 as stated: a source that does not end with a separator, and is not
\* ".", has only its single named child dispatched; a source that ends with a
\* separator, or is ".", has every child dispatched and no key of its own.
C11_SourceSeparatorRule ==
    startpc = "walk" =>
        IF EndsWithSep(args.source) \/ args.source = Dot THEN EveryChild ELSE SingleNamedChild

\* C11, amended: the rule goes by the last element of the source, and a last
\* element "." counts as none.
C11_SourceLastElementRule ==
    startpc = "walk" =>
        IF LastElement(args.source) \in {<<>>, Dot} THEN EveryChild ELSE SingleNamedChild

\* The source d, given without a separator, has been cloned: d and the file g
\* inside it were handled and stored, its sibling f was not dispatched.
C11_Witness ==
    /\ mainpc = "exit0"
    /\ args.source = NameOf("d")
    /\ bucket0 = "empty"
    /\ AllFinished
    /\ launches["d"] = 1
    /\ launches["g"] = 1
    /\ launches["f"] = 0
    /\ DOMAIN objects = {KeyOf("d"), KeyOf("g")}

\* C21: with a backend whose calls return, run comes to an end for every
\* source tree and every -max-concurrent value run accepts, and no handler
\* stays in a limiter acquisition (of weight 1 or of weight 5) for ever while
\* the process lives.
C21_NoHandlerWaitsForever ==
    \A e \in Entries :
        (handler[e].pc \in WaitPcs) ~> (~Running \/ handler[e].pc \notin WaitPcs)

\* C22: limiter use is balanced and free of hold-and-wait. The weight the
\* limiter has handed out is exactly the weight of the backend calls in
\* flight, one call per handler at most (1 for a probe or a marker put, 5 for
\* a file upload): every exit path of the probe, of the marker put and of the
\* file upload has given back what it acquired, a handler that dispatches or
\* walks children or waits for an acquisition holds nothing, and when all
\* handlers have finished the held weight is 0 and nobody is queued.
C22_LimiterBalanced ==
    /\ semCur = HeldWeight({e \in Entries : handler[e].pc \in InFlightPcs})
    /\ \A i \in 1..Len(semWaiters) : handler[semWaiters[i]].pc \in WaitPcs
    /\ (\A e \in Entries : handler[e].pc \notin InFlightPcs) => semCur = 0
    /\ (\A e \in Entries : handler[e].pc \in {"idle", "done"}) =>
          semCur = 0 /\ semWaiters = <<>>

\* Every handler of the full tree has finished, after a marker put, a file
\* upload that failed and an acquisition that ended with the context: nothing
\* is held.
C22_Witness ==
    /\ AllFinished
    /\ tree = Entries
    /\ puts["d"] = 1
    /\ \E e \in {"f", "g"} : puts[e] = 1
    /\ {"upload", "acquire"} \subseteq failed
    /\ semCur = 0

\* The handlers WalkDirectory has registered with waitGroup.Add(1), and those
\* that have returned.
Registered == {e \in Entries : launches[e] > 0 /\ \A w \in Walkers : walk[w].pending # e}
Returned == {e \in Entries : handler[e].pc = "done"}

\* C23: every dispatched handler decrements the pending-work counter exactly
\* once, on every exit path, so the counter is the number of registered
\* handlers less the number of handlers that returned, and it is 0 exactly
\* when all registered handlers have finished.
C23_CounterZeroIffAllFinished ==
    /\ wg = Cardinality(Registered) - Cardinality(Returned)
    /\ wg = 0 <=> Registered \subseteq Returned

\* The handler of e was dispatched (and so only then could probe or upload).
Dispatched(e) == launches[e] > 0 \/ probes[e] > 0 \/ handler[e].pc # "idle"

\* C24: when an entry beneath a directory is dispatched, the handler of the
\* directory is past its marker: it walks the directory or has returned, and
\* if it called UploadDir, that call has returned, after its put request or
\* after a failed acquisition. Hence no probe or upload of the entry is issued
\* before the marker attempt is over.
C24_MarkerBeforeChildren ==
    \A c \in Entries :
        (ParentOf(c) # ROOT /\ Dispatched(c)) =>
            /\ handler[ParentOf(c)].pc \in {"walk", "done"}
            /\ uploadCalls[ParentOf(c)] > 0 =>
                  (puts[ParentOf(c)] = 1 \/ "acquire" \in failed)

\* The file inside d is being uploaded after d's marker put failed, while the
\* unrelated file f was uploaded on its own.
C24_Witness ==
    /\ handler["g"].pc = "upload"
    /\ uploadCalls["d"] = 1
    /\ puts["d"] = 1
    /\ "upload" \in failed
    /\ KeyOf("d") \notin DOMAIN objects
    /\ puts["f"] = 1

\* The WalkDirectory call of handler e was made and has returned, and if it
\* returned nil every name in the directory was dispatched.
WalkedThrough(e) ==
    /\ walk[e].st = "done"
    /\ ~walk[e].err => \A c \in Children(e) : launches[c] = 1

\* C25 as stated: the handler of every entry that os.Stat reports as a
\* directory recurses into WalkDirectory before it returns, whatever became of
\* the marker.
C25_DirectoryAlwaysWalked ==
    \A e \in Entries :
        (IsDir(StatOf(e).Mode) /\ handler[e].pc = "done" /\ "stat" \notin failed) =>
            WalkedThrough(e)

\* C25, amended: the same for the handler of a directory that was admitted to
\* the limiter for its probe and got the probe's answer: it recurses whether
\* or not a marker was required, and whether UploadDir stored the marker,
\* failed, or could not acquire the limiter.
C25_ProbedDirectoryAlwaysWalked ==
    \A e \in Entries :
        (IsDir(StatOf(e).Mode) /\ handler[e].pc = "done" /\ probes[e] > 0) =>
            WalkedThrough(e)

\* The marker of d was required and UploadDir could not acquire the limiter;
\* the handler of d walked d all the same and the entries of d were dispatched.
C25_Witness ==
    /\ handler["d"].pc = "done"
    /\ blockedAt["d"] = "waitPut"
    /\ uploadCalls["d"] = 1
    /\ puts["d"] = 0
    /\ walk["d"].st = "done"
    /\ launches["g"] = 1

\* C26: FileMetadataEqual reports in-sync exactly when the size rule (files
\* only: the remote content length is the local size; never compared for a
\* directory), the ownership rule (file-owner and file-group present, decimal,
\* equal to the local ids after substitution), the permissions rule
\* (file-permissions present, octal, equal to the local mode masked to its low
\* 12 bits) and, unless timestamps are ignored, the timestamps rule
\* (file-ctime and file-mtime present, parsed, equal to the local times in
\* nanoseconds) all hold, and must-upload otherwise.
C26_ComparatorIsTheFourRules ==
    (Handled /\ sLast.probe = "ok") =>
        (sLast.metaEq <=>
            /\ SizeRule(sLast.hoo)
            /\ OwnershipRule(sLast.hoo)
            /\ PermissionsRule(sLast.hoo)
            /\ TimestampsRule(sLast.hoo))

\* The comparator found a directory in sync whose marker has length 0 while
\* the directory's own size is not 0, with the timestamps compared.
C26_Witness ==
    /\ Handled
    /\ sLast.probe = "ok"
    /\ sLast.metaEq
    /\ IsDir(sStat.Mode)
    /\ sLast.hoo.ContentLength # sStat.Size
    /\ ~ignoreTimestamps
    /\ ~sLast.prevStored

\* What a remote header can carry under a timestamp key: nothing (""), a
\* time other than the local ones, the local times, a text that does not parse.
TimeTexts ==
    {<<>>, <<"7", "n", "s">>, <<"1", "5", "0", "0", "n", "s">>,
     <<"1", "0", "0", "0", "0", "0", "0", "0", "0", "5", "n", "s">>, <<"x">>}

\* The header with the given texts under file-ctime and file-mtime, and the
\* key left out for the text "".
WithTimes(hoo, c, m) ==
    LET md == MetaDel(MetaDel(hoo.Metadata, "file-ctime"), "file-mtime")
        mc == IF c = <<>> THEN md ELSE MetaSet(md, "file-ctime", c)
    IN  [hoo EXCEPT !.Metadata = IF m = <<>> THEN mc ELSE MetaSet(mc, "file-mtime", m)]

\* C27: with -ignore-timestamps the verdict of the comparator does not depend
\* on file-ctime and file-mtime: it is the same for the header probed and for
\* that header with the two keys absent, unparseable, or holding any time.
C27_IgnoreTimestampsSkipsRule ==
    (Handled /\ sLast.probe = "ok" /\ ignoreTimestamps) =>
        \A c, m \in TimeTexts :
            FileMetadataEqual(WithTimes(sLast.hoo, c, m), sStat, IsDir(sStat.Mode))
                = sLast.metaEq

\* With -ignore-timestamps a file whose remote object lacks file-ctime was
\* found in sync and not uploaded.
C27_Witness ==
    /\ Handled
    /\ sLast.probe = "ok"
    /\ ignoreTimestamps
    /\ "file-ctime" \notin DOMAIN sLast.hoo.Metadata
    /\ "file-mtime" \in DOMAIN sLast.hoo.Metadata
    /\ IsRegular(sStat.Mode)
    /\ sLast.metaEq
    /\ sLast.uploadCalls = 0

\* The digest keys under which the header carries a value.
DigestsPresent(hoo) ==
    {k \in {"sha512", "sha256", "sha1", "md5"} : MetaGet(hoo.Metadata, k) # <<>>}

\* C28: when the remote metadata carries several digests, the digest verdict
\* is that of the strongest one present in the order sha512, sha256, sha1,
\* md5: equal when it matches the file, whatever the weaker ones hold, and
\* mismatch when it does not, even if every weaker one matches.
C28_StrongestDigestDecides ==
    (/\ Handled
     /\ sLast.probe = "ok"
     /\ IsRegular(sStat.Mode)
     /\ sLast.digest # "error"
     /\ Cardinality(DigestsPresent(sLast.hoo)) > 1) =>
        /\ sLast.digest \in {"equal", "differ"}
        /\ sLast.digest = "equal" <=>
              MetaGet(sLast.hoo.Metadata, SelectedAlg(sLast.hoo))
                  = LocalDigest(SelectedAlg(sLast.hoo))

\* The header carries four digests, sha512 matches the file and md5 does not:
\* the verdict is equal and the file is not uploaded.
C28_Witness ==
    /\ Handled
    /\ sLast.probe = "ok"
    /\ IsRegular(sStat.Mode)
    /\ Cardinality(DigestsPresent(sLast.hoo)) = 4
    /\ MetaGet(sLast.hoo.Metadata, "md5") # LocalDigest("md5")
    /\ SelectedAlg(sLast.hoo) = "sha512"
    /\ sLast.digest = "equal"
    /\ sLast.metaEq
    /\ sLast.uploadCalls = 0

\* C29: when the remote object exists and carries no digest (each of sha512,
\* sha256, sha1, md5 absent or empty), the digest check of a file is skipped:
\* it does not fail, the file is hashed only by an upload, and the upload
\* decision is the verdict of the metadata rules alone. The digest check is
\* not run for a directory, nor when the probe failed.
C29_NoDigestSkipsCheck ==
    /\ (/\ Handled
        /\ sLast.probe = "ok"
        /\ IsRegular(sStat.Mode)
        /\ DigestsPresent(sLast.hoo) = {}) =>
          /\ sLast.digest = "skipped"
          /\ sLast.uploadRequired = ~sLast.metaEq
          /\ sLast.uploadCalls = IF sLast.metaEq THEN 0 ELSE 1
          /\ sLast.hashPasses <= sLast.puts
    /\ (Handled /\ (IsDir(sStat.Mode) \/ sLast.probe # "ok")) => sLast.digest = "none"

\* The header of a file carries sha1 with an empty value and no other digest,
\* and the metadata rules hold: the file is neither hashed nor uploaded.
C29_Witness ==
    /\ Handled
    /\ sLast.probe = "ok"
    /\ IsRegular(sStat.Mode)
    /\ "sha1" \in DOMAIN sLast.hoo.Metadata
    /\ DigestsPresent(sLast.hoo) = {}
    /\ sLast.metaEq
    /\ sLast.digest = "skipped"
    /\ sLast.hashPasses = 0
    /\ sLast.uploadCalls = 0

\* The texts of the persisted schema: a decimal integer, a 4-digit octal
\* number, "<integer>ns", lowercase hex.
AllIn(s, chars) == \A i \in 1..Len(s) : s[i] \in chars
DecimalChars == {"0", "1", "2", "3", "4", "5", "6", "7", "8", "9"}
IsDecimalText(s) == Len(s) > 0 /\ AllIn(s, DecimalChars)
IsOctal4Text(s) == Len(s) = 4 /\ AllIn(s, {"0", "1", "2", "3", "4", "5", "6", "7"})
IsNanosText(s) ==
    /\ Len(s) > 2
    /\ SubSeq(s, Len(s) - 1, Len(s)) = <<"n", "s">>
    /\ IsDecimalText(SubSeq(s, 1, Len(s) - 2))
IsLowerHexText(s) ==
    /\ Len(s) > 0
    /\ Len(s) % 2 = 0
    /\ AllIn(s, DecimalChars \cup {"a", "b", "c", "d", "e", "f"})

PosixKeys == {"file-owner", "file-group", "file-permissions", "file-ctime", "file-mtime"}
DigestKeys == {"md5", "sha1", "sha256", "sha512"}

\* C30: every put request of a file carries file-owner and file-group
\* (decimal), file-permissions (4-digit octal), file-ctime and file-mtime
\* ("<integer>ns") and the four digests of the file as lowercase hex, whether
\* the digest check handed the digests over or UploadFile computed them; every
\* put request of a directory marker carries the five POSIX keys, no digest, a
\* body of length zero and the generic binary content type.
C30_UploadMetadataSchema ==
    (Handled /\ sLast.sent.put) =>
        LET md == sLast.sent.metadata
        IN  /\ PosixKeys \subseteq DOMAIN md
            /\ IsDecimalText(md["file-owner"])
            /\ IsDecimalText(md["file-group"])
            /\ IsOctal4Text(md["file-permissions"])
            /\ IsNanosText(md["file-ctime"])
            /\ IsNanosText(md["file-mtime"])
            /\ IF IsDir(sStat.Mode)
               THEN /\ DOMAIN md \cap DigestKeys = {}
                    /\ sLast.sent.bodyLen = 0
                    /\ sLast.sent.contentType = OctetStream
               ELSE /\ DigestKeys \subseteq DOMAIN md
                    /\ \A k \in DigestKeys : IsLowerHexText(md[k]) /\ md[k] = LocalDigest(k)
                    /\ sLast.sent.bodyLen = sStat.Size

\* A file whose remote digest did not match was put with the digests the
\* digest check had computed, in one hashing pass.
C30_Witness ==
    /\ Handled
    /\ sLast.sent.put
    /\ IsRegular(sStat.Mode)
    /\ sLast.digest = "differ"
    /\ sLast.hashPasses = 1
    /\ DigestKeys \subseteq DOMAIN sLast.sent.metadata
    /\ ~sLast.stored

\* C31: within one handler the digest pass over a file is performed at most
\* once: when the digest check computed the hashes, UploadFile puts the file
\* without hashing it again; UploadFile hashes the file only when the digest
\* check handed nothing over (it was not run, or it was skipped), and then the
\* stream is back at offset 0 when it is sent, so the body is the whole file.
C31_OneDigestPass ==
    (Handled /\ IsRegular(sStat.Mode)) =>
        /\ sLast.hashPasses <= 1
        /\ sLast.sent.put =>
              /\ sLast.sent.hashed <=> sLast.digest \notin {"equal", "differ"}
              /\ sLast.sent.bodyLen = sContent.len

\* The digest check was skipped for want of a remote digest, the metadata
\* differed, and UploadFile hashed the file itself and sent all of it.
C31_WitnessFresh ==
    /\ Handled
    /\ IsRegular(sStat.Mode)
    /\ sLast.probe = "ok"
    /\ sLast.digest = "skipped"
    /\ sLast.sent.put
    /\ sLast.sent.hashed
    /\ sLast.hashPasses = 1
    /\ sContent.len > 0
    /\ sLast.sent.bodyLen = sContent.len

\* The digest check hashed the file and found the digests equal, the metadata
\* differed, and UploadFile sent the file without hashing it.
C31_Witness ==
    /\ Handled
    /\ IsRegular(sStat.Mode)
    /\ sLast.digest = "equal"
    /\ ~sLast.metaEq
    /\ sLast.sent.put
    /\ ~sLast.sent.hashed
    /\ sLast.hashPasses = 1

\* The entries that are neither a regular file nor a directory.
Skipped == {e \in Entries : ~IsDir(StatOf(e).Mode) /\ ~IsRegular(StatOf(e).Mode)}

\* C32: for every entry that is neither a regular file nor a directory, the
\* handler issues no probe and no upload, never holds nor waits for the
\* limiter, walks nothing (so it dispatches no handler), and the one step it
\* takes after its start is its return, which gives its count back.
C32_OtherEntriesSkipped ==
    /\ [](\A e \in Skipped :
            /\ handler[e].pc \in {"idle", "start", "done"}
            /\ probes[e] = 0
            /\ uploadCalls[e] = 0
            /\ puts[e] = 0
            /\ \A i \in 1..Len(semWaiters) : semWaiters[i] # e
            /\ e \notin DOMAIN walk
            /\ \A c \in Entries : ParentOf(c) # e)
    /\ [][\A e \in Skipped :
            (handler[e].pc = "start" /\ handler'[e].pc # "start") =>
                /\ handler'[e].pc = "done"
                /\ semCur' = semCur
                /\ semWaiters' = semWaiters
                /\ objects' = objects
                /\ launches' = launches
                /\ wg' = wg - 1]_vars

\* The fifo inside the directory was dispatched and its handler returned,
\* while the handlers of its siblings went on to probe.
C32_Witness ==
    /\ Skipped # {}
    /\ \E e \in Skipped :
        /\ launches[e] = 1
        /\ handler[e].pc = "done"
        /\ probes[e] = 0
        /\ \E g \in Entries \ Skipped : ParentOf(g) = ParentOf(e) /\ probes[g] = 1

\* The directory handles that are open.
OpenHandles == {w \in Walkers : walk[w].fd = "open"}

\* C33: every directory handle opened by WalkDirectory is closed by the time
\* that call returns, with nil or with a read error, so that no directory
\* handle is open when run returns after all its WalkDirectory calls have.
C33_DirectoryHandlesClosed ==
    /\ \A w \in Walkers : walk[w].st = "done" => walk[w].fd # "open"
    /\ (/\ mainpc \in {"exit0", "exit1"}
        /\ \A w \in Walkers : walk[w].st \in {"off", "done"}) => OpenHandles = {}

\* The handlers inside a call of the in-memory backend. HeadObject reads
\* bucket.Objects and PutObject (called by UploadDir, and by the uploader for
\* a file) writes it; neither takes a lock, so a handler inside the call is
\* at its access to the map, unordered with the access of any other handler
\* inside a call.
MapReaders == {e \in Entries : handler[e].pc = "probe"}
MapWriters == {e \in Entries : handler[e].pc \in {"put", "upload"}}
MapAccessors == MapReaders \cup MapWriters

\* C34: the in-memory backend excludes its callers from one another: at no
\* time do two handlers, each inside a HeadObject or PutObject call the
\* limiter admitted, read or write the bucket's object map together.
C34_BackendExclusion == Running => Cardinality(MapAccessors) <= 1

====
